---- MODULE Spec2Model ----
(***************************************************************************)
(* A model of the topological phase of the exact mesh boolean              *)
(* (source/blender/blenlib/intern/boolean.cc): topology, patches, radial   *)
(* sort, cells, ambient cell, winding propagation and extraction, driven   *)
(* by boolean_trimesh.  Indices are 0-based as in the source; a mesh is a  *)
(* sequence of faces and face t of mesh tm is tm[t + 1].                   *)
(***************************************************************************)
EXTENDS Integers, Sequences, FiniteSets, TLC

(***************************************************************************)
(* Program constants.                                                      *)
(***************************************************************************)
NO_INDEX == -1
BOOLEAN_NONE == 0
BOOLEAN_ISECT == 1
BOOLEAN_UNION == 2
BOOLEAN_DIFFERENCE == 3
EXTRA_TRI_INDEX == 2147483647

(***************************************************************************)
(* Bounds of the model.                                                    *)
(***************************************************************************)
\* Largest number of input shapes.
MaxShapes == 3
\* Largest absolute winding number given to apply_bool_op on its own.
MaxWinding == 1
\* Largest face orig of the library; shape_fn is defined on 0..MaxOrig.
MaxOrig == 12

(***************************************************************************)
(* Small helpers on sequences.                                             *)
(***************************************************************************)
Range(s) == {s[i] : i \in DOMAIN s}

Contains(s, x) == \E i \in DOMAIN s : s[i] = x

\* Vector::append_non_duplicates
AppendNonDuplicates(s, x) == IF Contains(s, x) THEN s ELSE Append(s, x)

(***************************************************************************)
(* The arena: vertices.  A Vertp is modelled by the vertex id; the arena   *)
(* deduplicates vertices by coordinate, so ids and coordinates correspond  *)
(* one to one.  Coordinates are exact (integers here).                     *)
(***************************************************************************)
VertCo ==
  << <<0, 0, 0>>,    \* 0: A
     <<2, 0, 0>>,    \* 1: B
     <<0, 2, 0>>,    \* 2: C
     <<0, 0, 2>>,    \* 3: T, apex above
     <<0, 0, -2>>,   \* 4: D, apex below
     <<-5, 0, 0>>,   \* 5..8: a tetrahedron far from the others
     <<-4, 0, 0>>,
     <<-5, 1, 0>>,
     <<-5, 0, 1>> >>

NumVerts == Len(VertCo)

\* Vert::co_exact, for arena vertices and for one vertex appended after them.
CoExact(v, extra_co) == IF v < NumVerts THEN VertCo[v + 1] ELSE extra_co

\* MArena::add_or_find_vert: the id of the vertex at co, a new id if none.
AddOrFindVert(co) ==
  IF \E v \in 0..(NumVerts - 1) : VertCo[v + 1] = co
    THEN CHOOSE v \in 0..(NumVerts - 1) : VertCo[v + 1] = co
    ELSE NumVerts

\* mpq3::orient3d: sign of the determinant of (a-d, b-d, c-d); positive when
\* d is below the plane of a, b, c (a, b, c counterclockwise seen from above).
Sgn(x) == IF x > 0 THEN 1 ELSE IF x < 0 THEN -1 ELSE 0

Orient3d(a, b, c, d) ==
  LET adx == a[1] - d[1]  ady == a[2] - d[2]  adz == a[3] - d[3]
      bdx == b[1] - d[1]  bdy == b[2] - d[2]  bdz == b[3] - d[3]
      cdx == c[1] - d[1]  cdy == c[2] - d[2]  cdz == c[3] - d[3]
  IN Sgn(adz * (bdx * cdy - cdx * bdy)
         + bdz * (cdx * ady - adx * cdy)
         + cdz * (adx * bdy - bdx * ady))

(***************************************************************************)
(* Faces and meshes.                                                       *)
(***************************************************************************)
\* MArena::add_face
AddFace(verts, orig, edge_origs) ==
  [vert |-> verts, orig |-> orig, edge_orig |-> edge_origs]

\* A library triangle: its orig is its index in the input mesh and its three
\* sides carry three different original edge indices.
Tri(a, b, c, orig) ==
  AddFace(<<a, b, c>>, orig, <<3 * orig, 3 * orig + 1, 3 * orig + 2>>)

\* Mesh::face
Face(tm, t) == tm[t + 1]

\* Mesh::face_size
FaceSize(tm) == Len(tm)

\* Give the faces of a list the origs first, first + 1, ...
Numbered(vs, first) ==
  [i \in DOMAIN vs |-> Tri(vs[i][1], vs[i][2], vs[i][3], first + i - 1)]

\* Vertex triples, all with outward normals.
TopCap == << <<0, 1, 3>>, <<1, 2, 3>>, <<2, 0, 3>> >>
BottomCap == << <<1, 0, 4>>, <<2, 1, 4>>, <<0, 2, 4>> >>
MidUp == << <<0, 1, 2>> >>
MidDown == << <<0, 2, 1>> >>
FarTet == << <<5, 6, 8>>, <<6, 7, 8>>, <<7, 5, 8>>, <<5, 7, 6>> >>
\* TopCap with its second triangle turned over.
TwistedCap == << <<0, 1, 3>>, <<2, 1, 3>>, <<2, 0, 3>> >>
\* MidUp listed from its second vertex.
MidTurned == << <<1, 2, 0>> >>
\* A triangle on the edge A-T that points away from the others.
Fin == << <<0, 3, 7>> >>
\* Three triangles that meet in the edge A-B and nowhere else.
Flaps == << <<0, 1, 2>>, <<0, 1, 3>>, <<1, 0, 4>> >>
\* Three triangles that meet in the edge A-B, the first two in the plane
\* y = 0 on either side of it; B is followed by A or T in each of them.
Sheets == << <<1, 0, 4>>, <<0, 1, 3>>, <<1, 0, 2>> >>
\* A triangle with a repeated vertex, which the intersection drops.
Bogus == << <<0, 0, 1>> >>

RevAll(vs) == [i \in DOMAIN vs |-> <<vs[i][1], vs[i][3], vs[i][2]>>]

\* The input meshes tm_in.
MeshLibrary ==
  << <<>>,                                                      \* 1 no faces
     Numbered(Bogus, 0),                                        \* 2 only bogus
     Numbered(Bogus \o TopCap \o MidDown, 0),                   \* 3 one tet
     Numbered(Bogus \o TopCap \o MidDown \o FarTet, 0),         \* 4 two disjoint
     Numbered(Bogus \o TopCap \o BottomCap \o MidUp, 0),        \* 5 bipyramid + wall
     Numbered(Bogus \o TopCap \o MidDown \o BottomCap \o MidUp, 0),  \* 6 touching tets
     Numbered(Bogus \o FarTet \o TopCap \o MidDown \o BottomCap \o MidUp, 0), \* 7
     Numbered(Bogus \o TopCap \o MidDown \o BottomCap \o MidUp \o FarTet, 0), \* 8
     Numbered(Bogus \o RevAll(TopCap \o BottomCap \o MidUp), 0), \* 9 inward normals
     Numbered(Bogus \o TopCap \o MidDown \o RevAll(BottomCap \o MidUp), 0), \* 10 mixed
     Numbered(Bogus \o TopCap, 0),                              \* 11 open cone
     Numbered(Bogus \o TwistedCap \o MidTurned \o BottomCap, 0), \* 12 one face turned
     Numbered(Bogus \o Flaps, 0),                               \* 13 three flaps
     Numbered(Bogus \o TopCap \o MidTurned \o BottomCap, 0),    \* 14 two edges sorted
     Numbered(Bogus \o TopCap \o BottomCap, 0),                 \* 15 bipyramid
     Numbered(Bogus \o TopCap \o BottomCap \o Fin, 0),          \* 16 bipyramid + fin
     Numbered(Bogus \o Sheets, 0)                              \* 17 three sheets
  >>

\* The shape functions offered with nshapes shapes (values below nshapes).
ShapeFns(n) ==
  {f \in { [o \in 0..MaxOrig |-> 0],
           [o \in 0..MaxOrig |-> IF o <= 4 THEN 0 ELSE 1],
           [o \in 0..MaxOrig |-> IF o <= 4 THEN 1 ELSE 0],
           [o \in 0..MaxOrig |-> IF o <= 4 THEN 0 ELSE IF o <= 8 THEN 1 ELSE 2],
           [o \in 0..MaxOrig |-> o % 3] } :
     \A o \in 0..MaxOrig : f[o] < n}

\* trimesh_self_intersect / trimesh_nary_intersect on a mesh whose triangles
\* already meet only in shared edges and vertices: the triangles that are
\* not degenerate, in order, with their origs.
IsBogus(f) ==
  f.vert[1] = f.vert[2] \/ f.vert[2] = f.vert[3] \/ f.vert[3] = f.vert[1]

TrimeshIntersect(tm) == SelectSeq(tm, LAMBDA f : ~IsBogus(f))

(***************************************************************************)
(* Edge: two vertices in canonical order (lower id first).                 *)
(***************************************************************************)
NullEdge == <<NO_INDEX, NO_INDEX>>

Edge(v0, v1) == IF v0 <= v1 THEN <<v0, v1>> ELSE <<v1, v0>>

(***************************************************************************)
(* TriMeshTopology.  edge_tri maps an edge to the list of triangles that   *)
(* have it; vert_edges maps a vertex to the list of its edges.  Both are   *)
(* functions whose domains are the keys of the maps.                       *)
(***************************************************************************)
EmptyMap == [x \in {} |-> <<>>]

\* Map lookup with a default.
Lookup(m, k, default) == IF k \in DOMAIN m THEN m[k] ELSE default

\* Set m[k] to v, k in the map or not.
MapSet(m, k, v) == (k :> v) @@ m

\* The inner loop body with the edge keyed by its direction in the
\* triangle instead of the canonical Edge.
TopoAddSide_DirectedKey(topo, tm, t, i) ==
  LET tri == Face(tm, t)
      v == tri.vert[i + 1]
      vnext == tri.vert[((i + 1) % 3) + 1]
      e == <<v, vnext>>
      edges == Lookup(topo.vert_edges, v, <<>>)
      tris == Lookup(topo.edge_tri, e, <<>>)
  IN [vert_edges |-> MapSet(topo.vert_edges, v, AppendNonDuplicates(edges, e)),
      edge_tri |-> MapSet(topo.edge_tri, e, AppendNonDuplicates(tris, t))]

\* The body of the inner loop of the constructor for side i of triangle t.
TopoAddSide(topo, tm, t, i) ==
  LET tri == Face(tm, t)
      v == tri.vert[i + 1]
      vnext == tri.vert[((i + 1) % 3) + 1]
      e == Edge(v, vnext)
      edges == Lookup(topo.vert_edges, v, <<>>)
      tris == Lookup(topo.edge_tri, e, <<>>)
  IN [vert_edges |-> MapSet(topo.vert_edges, v, AppendNonDuplicates(edges, e)),
      edge_tri |-> MapSet(topo.edge_tri, e, AppendNonDuplicates(tris, t))]

\* The body of the outer loop of the constructor for triangle t.
TopoAddTri(topo, tm, t) ==
  TopoAddSide(TopoAddSide(TopoAddSide(topo, tm, t, 0), tm, t, 1), tm, t, 2)

\* The maps before the loop.
NoTopo == [vert_edges |-> EmptyMap, edge_tri |-> EmptyMap]

\* TriMeshTopology::edge_tris; the empty list stands for nullptr.
EdgeTris(topo, e) == Lookup(topo.edge_tri, e, <<>>)

\* other_tri_if_manifold that answers for every edge with two triangles or
\* more.
OtherTriIfManifold_AnyOther(topo, e, t) ==
  IF e \in DOMAIN topo.edge_tri /\ Len(topo.edge_tri[e]) >= 2
    THEN (IF topo.edge_tri[e][1] = t THEN topo.edge_tri[e][2]
                                      ELSE topo.edge_tri[e][1])
    ELSE NO_INDEX

\* TriMeshTopology::other_tri_if_manifold
OtherTriIfManifold(topo, e, t) ==
  IF e \in DOMAIN topo.edge_tri /\ Len(topo.edge_tri[e]) = 2
    THEN (IF topo.edge_tri[e][1] = t THEN topo.edge_tri[e][2]
                                      ELSE topo.edge_tri[e][1])
    ELSE NO_INDEX

(***************************************************************************)
(* Patches.  A PatchesInfo is [patch, tri_patch, pp_edge]: patch is the    *)
(* list of Patch records [tri, cell_above, cell_below], tri_patch[t + 1]   *)
(* the patch of triangle t, pp_edge the map from patch pairs to edges.     *)
(***************************************************************************)
\* Patch::Patch
NewPatch == [tri |-> <<>>, cell_above |-> NO_INDEX, cell_below |-> NO_INDEX]

\* PatchesInfo::PatchesInfo
NewPatchesInfo(ntri) ==
  [patch |-> <<>>, tri_patch |-> [t \in 1..ntri |-> NO_INDEX], pp_edge |-> EmptyMap]

\* PatchesInfo::tri_patch
TriPatch(pinfo, t) == pinfo.tri_patch[t + 1]

\* PatchesInfo::tri_is_assigned
TriIsAssigned(pinfo, t) == pinfo.tri_patch[t + 1] # NO_INDEX

\* PatchesInfo::add_patch (the new patch has index Len(pinfo.patch))
AddPatch(pinfo) == [pinfo EXCEPT !.patch = Append(@, NewPatch)]

\* PatchesInfo::grow_patch
GrowPatch(pinfo, patch_index, t) ==
  [pinfo EXCEPT !.tri_patch[t + 1] = patch_index,
                !.patch[patch_index + 1].tri = Append(@, t)]

\* PatchesInfo::patch_patch_edge
PatchPatchEdge(pinfo, p1, p2) == Lookup(pinfo.pp_edge, <<p1, p2>>, NullEdge)

\* add_new_patch_patch_edge that stores one ordering of the pair only.
AddNewPatchPatchEdge_OneOrder(pinfo, p1, p2, e) ==
  [pinfo EXCEPT !.pp_edge = MapSet(@, <<p1, p2>>, e)]

\* PatchesInfo::add_new_patch_patch_edge
AddNewPatchPatchEdge(pinfo, p1, p2, e) ==
  [pinfo EXCEPT !.pp_edge = MapSet(MapSet(@, <<p1, p2>>, e), <<p2, p1>>, e)]

RECURSIVE PatchIncidences(_, _, _, _, _, _)
\* find_patches, the loop over the triangles etris[j], j >= k, of an edge e
\* of tcand that is not manifold.
PatchIncidences(pinfo, etris, k, e, tcand, cur_patch_index) ==
  IF k > Len(etris) THEN pinfo
  ELSE
    LET t_other == etris[k]
        p_other == TriPatch(pinfo, t_other)
        next ==
          IF t_other # tcand /\ TriIsAssigned(pinfo, t_other)
             /\ p_other # cur_patch_index
             /\ PatchPatchEdge(pinfo, cur_patch_index, p_other) = NullEdge
            THEN AddNewPatchPatchEdge(pinfo, cur_patch_index, p_other, e)
            ELSE pinfo
    IN PatchIncidences(next, etris, k + 1, e, tcand, cur_patch_index)

RECURSIVE PatchSides(_, _, _, _, _, _)
\* find_patches, the loop over the sides i, i + 1, ... of the triangle tcand
\* just added to the patch; st is [pinfo, stack].
PatchSides(st, tm, topo, tcand, i, cur_patch_index) ==
  IF i >= 3 THEN st
  ELSE
    LET tri == Face(tm, tcand)
        e == Edge(tri.vert[i + 1], tri.vert[((i + 1) % 3) + 1])
        t_other == OtherTriIfManifold(topo, e, tcand)
        next ==
          IF t_other # NO_INDEX
            THEN (IF ~TriIsAssigned(st.pinfo, t_other)
                    THEN [st EXCEPT !.stack = Append(@, t_other)]
                    ELSE st)
            ELSE [st EXCEPT !.pinfo =
                    PatchIncidences(@, EdgeTris(topo, e), 1, e, tcand, cur_patch_index)]
    IN PatchSides(next, tm, topo, tcand, i + 1, cur_patch_index)

\* The iteration of the while loop without the test that tcand is already
\* assigned.
PatchGrowBody_NoAssignedTest(pinfo, stack, tm, topo, cur_patch_index) ==
  LET tcand == stack[Len(stack)]
      popped == SubSeq(stack, 1, Len(stack) - 1)
  IN PatchSides([pinfo |-> GrowPatch(pinfo, cur_patch_index, tcand),
                 stack |-> popped],
                tm, topo, tcand, 0, cur_patch_index)

\* find_patches, one iteration of the while loop on cur_patch_grow (the top
\* of the stack is its last element): [pinfo, stack].
PatchGrowBody(pinfo, stack, tm, topo, cur_patch_index) ==
  LET tcand == stack[Len(stack)]
      popped == SubSeq(stack, 1, Len(stack) - 1)
  IN IF TriIsAssigned(pinfo, tcand)
       THEN [pinfo |-> pinfo, stack |-> popped]
       ELSE PatchSides([pinfo |-> GrowPatch(pinfo, cur_patch_index, tcand),
                        stack |-> popped],
                       tm, topo, tcand, 0, cur_patch_index)

(***************************************************************************)
(* Radial sort of the triangles around an edge.  A null Vertp is           *)
(* NO_INDEX.  The extra triangle has index EXTRA_TRI_INDEX; extra_co is    *)
(* the coordinate of its vertex that is not in the arena table.            *)
(***************************************************************************)
\* find_flap_vert: [flapv, rev]
FindFlapVert(tri, e) ==
  LET v == tri.vert
      null == [flapv |-> NO_INDEX, rev |-> FALSE]
  IN IF v[1] = e[1]
       THEN (IF v[2] = e[2] THEN [flapv |-> v[3], rev |-> FALSE]
             ELSE IF v[3] # e[2] THEN null
             ELSE [flapv |-> v[2], rev |-> TRUE])
     ELSE IF v[2] = e[1]
       THEN (IF v[3] = e[2] THEN [flapv |-> v[1], rev |-> FALSE]
             ELSE IF v[1] # e[2] THEN null
             ELSE [flapv |-> v[3], rev |-> TRUE])
     ELSE IF v[3] # e[1] THEN null
     ELSE IF v[1] = e[2] THEN [flapv |-> v[2], rev |-> FALSE]
     ELSE IF v[2] # e[2] THEN null
     ELSE [flapv |-> v[1], rev |-> TRUE]

\* sort_tris_class with the answers for below and above exchanged.
SortTrisClass_BelowAboveSwapped(tri, tri0, e, extra_co) ==
  LET a0 == CoExact(tri0.vert[1], extra_co)
      a1 == CoExact(tri0.vert[2], extra_co)
      a2 == CoExact(tri0.vert[3], extra_co)
      f0 == FindFlapVert(tri0, e)
      f == FindFlapVert(tri, e)
      orient == Orient3d(a0, a1, a2, CoExact(f.flapv, extra_co))
  IN IF orient > 0 THEN (IF f0.rev THEN 3 ELSE 4)
     ELSE IF orient < 0 THEN (IF f0.rev THEN 4 ELSE 3)
     ELSE IF f.flapv = f0.flapv THEN 1 ELSE 2

\* sort_tris_class
SortTrisClass(tri, tri0, e, extra_co) ==
  LET a0 == CoExact(tri0.vert[1], extra_co)
      a1 == CoExact(tri0.vert[2], extra_co)
      a2 == CoExact(tri0.vert[3], extra_co)
      f0 == FindFlapVert(tri0, e)
      f == FindFlapVert(tri, e)
      orient == Orient3d(a0, a1, a2, CoExact(f.flapv, extra_co))
  IN IF orient > 0 THEN (IF f0.rev THEN 4 ELSE 3)
     ELSE IF orient < 0 THEN (IF f0.rev THEN 3 ELSE 4)
     ELSE IF f.flapv = f0.flapv THEN 1 ELSE 2

Abs(x) == IF x < 0 THEN -x ELSE x

\* sort_by_signed_triangle_index.  tm.face(EXTRA_TRI_INDEX) is a read out of
\* bounds; oob_rev is the orientation bit such a read produces.
SortBySignedTriangleIndex(g, e, tm, oob_rev) ==
  LET rev(t) == IF t < FaceSize(tm) THEN FindFlapVert(Face(tm, t), e).rev
                                    ELSE oob_rev
      signed_g == [i \in DOMAIN g |-> IF rev(g[i]) THEN -g[i] ELSE g[i]]
      sorted == SortSeq(signed_g, LAMBDA a, b : a < b)
  IN [i \in DOMAIN g |-> Abs(sorted[i])]

\* The triangle with index t: the extra triangle for EXTRA_TRI_INDEX.
TriOrExtra(tm, t, extra_tri) ==
  IF t = EXTRA_TRI_INDEX THEN extra_tri ELSE Face(tm, t)

RECURSIVE SortTrisAroundEdge(_, _, _, _, _, _, _)
\* sort_tris_around_edge
SortTrisAroundEdge(tm, e, tris, t0, extra_tri, extra_co, oob_rev) ==
  IF Len(tris) = 0 THEN <<>>
  ELSE
    LET tri0 == Face(tm, t0)
        class(i) == SortTrisClass(TriOrExtra(tm, tris[i], extra_tri), tri0, e, extra_co)
        idx == [i \in 1..(Len(tris) - 1) |-> i + 1]
        members(n) ==
          LET sel == SelectSeq(idx, LAMBDA i : class(i) = n)
          IN [k \in DOMAIN sel |-> tris[sel[k]]]
        g1 == <<tris[1]>> \o members(1)
        g2 == members(2)
        g3 == members(3)
        g4 == members(4)
        g1s == IF Len(g1) > 1 THEN SortBySignedTriangleIndex(g1, e, tm, oob_rev) ELSE g1
        g2s == IF Len(g2) > 1 THEN SortBySignedTriangleIndex(g2, e, tm, oob_rev) ELSE g2
        g3s == IF Len(g3) > 1
                 THEN SortTrisAroundEdge(tm, e, g3, g3[1], extra_tri, extra_co, oob_rev)
                 ELSE g3
        g4s == IF Len(g4) > 1
                 THEN SortTrisAroundEdge(tm, e, g4, g4[1], extra_tri, extra_co, oob_rev)
                 ELSE g4
    IN IF tris[1] = t0 THEN g1s \o g4s \o g2s \o g3s
                       ELSE g3s \o g1s \o g4s \o g2s

RECURSIVE SortReadsOutOfBounds(_, _, _, _, _, _)
\* Does sort_tris_around_edge use EXTRA_TRI_INDEX as an index into tm: as
\* the pivot t0, or in a group given to sort_by_signed_triangle_index?
SortReadsOutOfBounds(tm, e, tris, t0, extra_tri, extra_co) ==
  IF Len(tris) = 0 THEN FALSE
  ELSE IF t0 = EXTRA_TRI_INDEX THEN TRUE
  ELSE
    LET tri0 == Face(tm, t0)
        class(i) == SortTrisClass(TriOrExtra(tm, tris[i], extra_tri), tri0, e, extra_co)
        idx == [i \in 1..(Len(tris) - 1) |-> i + 1]
        members(n) ==
          LET sel == SelectSeq(idx, LAMBDA i : class(i) = n)
          IN [k \in DOMAIN sel |-> tris[sel[k]]]
        g1 == <<tris[1]>> \o members(1)
        g2 == members(2)
        g3 == members(3)
        g4 == members(4)
    IN \/ Len(g1) > 1 /\ Contains(g1, EXTRA_TRI_INDEX)
       \/ Len(g2) > 1 /\ Contains(g2, EXTRA_TRI_INDEX)
       \/ Len(g3) > 1 /\ SortReadsOutOfBounds(tm, e, g3, g3[1], extra_tri, extra_co)
       \/ Len(g4) > 1 /\ SortReadsOutOfBounds(tm, e, g4, g4[1], extra_tri, extra_co)

RECURSIVE SortTrisAroundEdgeCalls_PivotPassedOn(_, _, _, _, _, _)
\* The calls of a sort whose recursive calls keep the pivot of the caller.
SortTrisAroundEdgeCalls_PivotPassedOn(tm, e, tris, t0, extra_tri, extra_co) ==
  IF Len(tris) = 0 THEN {[tris |-> tris, t0 |-> t0, first |-> FALSE]}
  ELSE
    LET tri0 == Face(tm, t0)
        class(i) == SortTrisClass(TriOrExtra(tm, tris[i], extra_tri), tri0, e, extra_co)
        idx == [i \in 1..(Len(tris) - 1) |-> i + 1]
        members(n) ==
          LET sel == SelectSeq(idx, LAMBDA i : class(i) = n)
          IN [k \in DOMAIN sel |-> tris[sel[k]]]
        g3 == members(3)
        g4 == members(4)
    IN {[tris |-> tris, t0 |-> t0, first |-> (tris[1] = t0)]}
       \cup (IF Len(g3) > 1
                THEN SortTrisAroundEdgeCalls_PivotPassedOn(tm, e, g3, t0, extra_tri, extra_co)
                ELSE {})
       \cup (IF Len(g4) > 1
                THEN SortTrisAroundEdgeCalls_PivotPassedOn(tm, e, g4, t0, extra_tri, extra_co)
                ELSE {})

RECURSIVE SortTrisAroundEdgeCalls(_, _, _, _, _, _)
\* The calls of sort_tris_around_edge that one call of it makes, itself
\* included: [tris, t0, first], first telling whether the answer is put
\* together as g1, g4, g2, g3 (tris[0] == t0) or as g3, g1, g4, g2.
SortTrisAroundEdgeCalls(tm, e, tris, t0, extra_tri, extra_co) ==
  IF Len(tris) = 0 THEN {[tris |-> tris, t0 |-> t0, first |-> FALSE]}
  ELSE
    LET tri0 == Face(tm, t0)
        class(i) == SortTrisClass(TriOrExtra(tm, tris[i], extra_tri), tri0, e, extra_co)
        idx == [i \in 1..(Len(tris) - 1) |-> i + 1]
        members(n) ==
          LET sel == SelectSeq(idx, LAMBDA i : class(i) = n)
          IN [k \in DOMAIN sel |-> tris[sel[k]]]
        g3 == members(3)
        g4 == members(4)
    IN {[tris |-> tris, t0 |-> t0, first |-> (tris[1] = t0)]}
       \cup (IF Len(g3) > 1
                THEN SortTrisAroundEdgeCalls(tm, e, g3, g3[1], extra_tri, extra_co)
                ELSE {})
       \cup (IF Len(g4) > 1
                THEN SortTrisAroundEdgeCalls(tm, e, g4, g4[1], extra_tri, extra_co)
                ELSE {})

(***************************************************************************)
(* Cells.  A CellsInfo is the list of Cell records                         *)
(* [patches, winding, winding_assigned, flag].                             *)
(***************************************************************************)
\* Cell::Cell
NewCell == [patches |-> <<>>, winding |-> <<>>, winding_assigned |-> FALSE,
            flag |-> FALSE]

\* One side of a patch, as the int the source takes the address of.
SideOf(pinfo, p, above) ==
  IF above THEN pinfo.patch[p + 1].cell_above ELSE pinfo.patch[p + 1].cell_below

SetSide(pinfo, p, above, c) ==
  IF above THEN [pinfo EXCEPT !.patch[p + 1].cell_above = c]
           ELSE [pinfo EXCEPT !.patch[p + 1].cell_below = c]

\* An add_patch that records nothing.
CellAddPatch_NotRecorded(cinfo, c, p) == cinfo

\* Cell::add_patch on cell c
CellAddPatch(cinfo, c, p) == [cinfo EXCEPT ![c + 1].patches = Append(@, p)]

\* A variant of the loop body that makes a new cell for the unset side when
\* only one of the two sides is set.
FindCellsFromEdgeBody_NewCellPerSide(tm, pinfo, cinfo, e, sorted_tris, i) ==
  LET inext == (i + 1) % Len(sorted_tris)
      r_index == TriPatch(pinfo, sorted_tris[i + 1])
      rnext_index == TriPatch(pinfo, sorted_tris[inext + 1])
      r_above == ~FindFlapVert(Face(tm, sorted_tris[i + 1]), e).rev
      rnext_above == FindFlapVert(Face(tm, sorted_tris[inext + 1]), e).rev
      r_follow_cell == SideOf(pinfo, r_index, r_above)
      rnext_prev_cell == SideOf(pinfo, rnext_index, rnext_above)
      c_new == Len(cinfo)
  IN IF r_follow_cell = NO_INDEX /\ rnext_prev_cell = NO_INDEX
       THEN [pinfo |-> SetSide(SetSide(pinfo, r_index, r_above, c_new),
                               rnext_index, rnext_above, c_new),
             cinfo |-> CellAddPatch(CellAddPatch(Append(cinfo, NewCell), c_new, r_index),
                                    c_new, rnext_index),
             conflict |-> FALSE]
     ELSE IF r_follow_cell # NO_INDEX /\ rnext_prev_cell = NO_INDEX
       THEN [pinfo |-> SetSide(pinfo, rnext_index, rnext_above, c_new),
             cinfo |-> CellAddPatch(Append(cinfo, NewCell), c_new, rnext_index),
             conflict |-> FALSE]
     ELSE IF r_follow_cell = NO_INDEX /\ rnext_prev_cell # NO_INDEX
       THEN [pinfo |-> SetSide(pinfo, r_index, r_above, c_new),
             cinfo |-> CellAddPatch(Append(cinfo, NewCell), c_new, r_index),
             conflict |-> FALSE]
     ELSE [pinfo |-> pinfo, cinfo |-> cinfo,
           conflict |-> (r_follow_cell # rnext_prev_cell)]

\* find_cells_from_edge, the body of the loop for position i of sorted_tris:
\* [pinfo, cinfo, conflict].
FindCellsFromEdgeBody(tm, pinfo, cinfo, e, sorted_tris, i) ==
  LET n_edge_tris == Len(sorted_tris)
      inext == (i + 1) % n_edge_tris
      r_index == TriPatch(pinfo, sorted_tris[i + 1])
      rnext_index == TriPatch(pinfo, sorted_tris[inext + 1])
      r_flipped == FindFlapVert(Face(tm, sorted_tris[i + 1]), e).rev
      rnext_flipped == FindFlapVert(Face(tm, sorted_tris[inext + 1]), e).rev
      \* r_follow_cell is cell_below if flipped, rnext_prev_cell cell_above.
      r_above == ~r_flipped
      rnext_above == rnext_flipped
      r_follow_cell == SideOf(pinfo, r_index, r_above)
      rnext_prev_cell == SideOf(pinfo, rnext_index, rnext_above)
      c_new == Len(cinfo)
  IN IF r_follow_cell = NO_INDEX /\ rnext_prev_cell = NO_INDEX
       THEN [pinfo |-> SetSide(SetSide(pinfo, r_index, r_above, c_new),
                               rnext_index, rnext_above, c_new),
             cinfo |-> CellAddPatch(CellAddPatch(Append(cinfo, NewCell), c_new, r_index),
                                    c_new, rnext_index),
             conflict |-> FALSE]
     ELSE IF r_follow_cell # NO_INDEX /\ rnext_prev_cell = NO_INDEX
       THEN [pinfo |-> SetSide(pinfo, rnext_index, rnext_above, r_follow_cell),
             cinfo |-> CellAddPatch(cinfo, r_follow_cell, rnext_index),
             conflict |-> FALSE]
     ELSE IF r_follow_cell = NO_INDEX /\ rnext_prev_cell # NO_INDEX
       THEN [pinfo |-> SetSide(pinfo, r_index, r_above, rnext_prev_cell),
             cinfo |-> CellAddPatch(cinfo, rnext_prev_cell, r_index),
             conflict |-> FALSE]
     ELSE [pinfo |-> pinfo, cinfo |-> cinfo,
           conflict |-> (r_follow_cell # rnext_prev_cell)]

\* find_cells, the pair of patch indices that follows (p, q) in the two
\* nested loops; <<np, np>> when there is none.
NextPair(p, q, np) ==
  IF q + 1 < np THEN <<p, q + 1>>
  ELSE IF p + 2 < np THEN <<p + 1, p + 2>>
  ELSE <<np, np>>

\* find_cells, the first pair of the nested loops.
FirstPair(np) == IF np >= 2 THEN <<0, 1>> ELSE <<np, np>>

(***************************************************************************)
(* patch_cell_graph_connected.  The flood fill state is [stack,            *)
(* cell_reachable, patch_reachable, oob]; oob records that cell_reachable  *)
(* was indexed with NO_INDEX, a read out of bounds, which is taken here to *)
(* have read true (the other outcomes are in the action).                  *)
(***************************************************************************)
RECURSIVE PushUnreached(_, _, _)
\* The loop over the patches of a cell that has just become reachable.
PushUnreached(ff, patches, k) ==
  IF k > Len(patches) THEN ff
  ELSE PushUnreached(
         IF ~ff.patch_reachable[patches[k] + 1]
           THEN [ff EXCEPT !.stack = Append(@, patches[k])]
           ELSE ff,
         patches, k + 1)

\* The body of the loop over a side c of the patch.
FloodSide(ff, cinfo, c) ==
  IF c < 0 \/ c >= Len(cinfo) THEN [ff EXCEPT !.oob = TRUE]
  ELSE IF ff.cell_reachable[c + 1] THEN ff
  ELSE PushUnreached([ff EXCEPT !.cell_reachable[c + 1] = TRUE],
                     cinfo[c + 1].patches, 1)

RECURSIVE Flood(_, _, _)
\* The while loop on the stack.
Flood(ff, cinfo, pinfo) ==
  IF ff.stack = <<>> THEN ff
  ELSE
    LET p == ff.stack[Len(ff.stack)]
        popped == [ff EXCEPT !.stack = SubSeq(@, 1, Len(@) - 1)]
    IN IF popped.patch_reachable[p + 1] THEN Flood(popped, cinfo, pinfo)
       ELSE
         LET marked == [popped EXCEPT !.patch_reachable[p + 1] = TRUE]
             patch == pinfo.patch[p + 1]
         IN Flood(FloodSide(FloodSide(marked, cinfo, patch.cell_above),
                            cinfo, patch.cell_below),
                  cinfo, pinfo)

\* patch_cell_graph_connected: [result, oob]
PatchCellGraphConnected(cinfo, pinfo) ==
  IF Len(cinfo) = 0 \/ Len(pinfo.patch) = 0
    THEN [result |-> FALSE, oob |-> FALSE]
    ELSE
      LET ff == Flood([stack |-> <<0>>,
                       cell_reachable |-> [c \in 1..Len(cinfo) |-> FALSE],
                       patch_reachable |-> [p \in 1..Len(pinfo.patch) |-> FALSE],
                       oob |-> FALSE],
                      cinfo, pinfo)
      IN [result |-> /\ \A c \in 1..Len(cinfo) : ff.cell_reachable[c]
                     /\ \A p \in 1..Len(pinfo.patch) : ff.patch_reachable[p],
          oob |-> ff.oob]

\* patch_cell_graph_ok
PatchCellGraphOk(cinfo, pinfo) ==
  /\ \A c \in 1..Len(cinfo) :
       /\ Len(cinfo[c].patches) # 0
       /\ \A k \in 1..Len(cinfo[c].patches) : cinfo[c].patches[k] < Len(pinfo.patch)
  /\ \A p \in 1..Len(pinfo.patch) :
       /\ pinfo.patch[p].cell_above # NO_INDEX
       /\ pinfo.patch[p].cell_below # NO_INDEX
       /\ pinfo.patch[p].cell_above < Len(cinfo)
       /\ pinfo.patch[p].cell_below < Len(cinfo)
  /\ PatchCellGraphConnected(cinfo, pinfo).result

(***************************************************************************)
(* find_ambient_cell                                                       *)
(***************************************************************************)
\* The vertex of greater x of v_extreme and v, v_extreme if they are equal.
Greater(v_extreme, v) ==
  IF VertCo[v + 1][1] > VertCo[v_extreme + 1][1] THEN v ELSE v_extreme

RECURSIVE ExtremeVert(_, _, _)
\* The loop over the faces f, f + 1, ... and their vertices that keeps a
\* vertex of greatest x.
ExtremeVert(tm, v_extreme, f) ==
  IF f >= FaceSize(tm) THEN v_extreme
  ELSE
    LET v == Face(tm, f).vert
    IN ExtremeVert(tm, Greater(Greater(Greater(v_extreme, v[1]), v[2]), v[3]), f + 1)

RECURSIVE HullEdge(_, _, _, _, _)
\* The loop over the edges of v_extreme that keeps the edge of greatest
\* absolute slope in the xy plane; the slope is the fraction num / den.
HullEdge(edges, k, v_extreme, ehull, max_abs_slope) ==
  IF k > Len(edges) THEN ehull
  ELSE
    LET e == edges[k]
        v_other == IF e[1] = v_extreme THEN e[2] ELSE e[1]
        delta_x == VertCo[v_other + 1][1] - VertCo[v_extreme + 1][1]
        delta_y == VertCo[v_other + 1][2] - VertCo[v_extreme + 1][2]
        abs_slope == [num |-> Abs(delta_y), den |-> Abs(delta_x)]
    IN IF delta_x = 0 THEN e
       ELSE IF abs_slope.num * max_abs_slope.den > max_abs_slope.num * abs_slope.den
         THEN HullEdge(edges, k + 1, v_extreme, e, abs_slope)
         ELSE HullEdge(edges, k + 1, v_extreme, ehull, max_abs_slope)

\* Position (from 1) of x in s.
IndexOf(s, x) == CHOOSE i \in DOMAIN s : s[i] = x

\* find_ambient_cell from the extreme vertex to the radial sort: what the
\* sort is called with.
AmbientSortInputAt(topo, v_extreme, ehull) ==
  [ehull |-> ehull,
   extra_co |-> <<VertCo[v_extreme + 1][1] + 1, VertCo[v_extreme + 1][2],
                  VertCo[v_extreme + 1][3]>>,
   dummy_tri |-> AddFace(<<ehull[1], ehull[2],
                           AddOrFindVert(<<VertCo[v_extreme + 1][1] + 1,
                                           VertCo[v_extreme + 1][2],
                                           VertCo[v_extreme + 1][3]>>)>>,
                         NO_INDEX, <<NO_INDEX, NO_INDEX, NO_INDEX>>),
   edge_tris |-> Append(EdgeTris(topo, ehull), EXTRA_TRI_INDEX)]

\* The hull edge at the extreme vertex.
AmbientHullEdge(topo, v_extreme) ==
  HullEdge(topo.vert_edges[v_extreme], 1, v_extreme, NullEdge, [num |-> -1, den |-> 1])

\* find_ambient_cell up to the radial sort.
AmbientSortInputFrom(topo, v_extreme) ==
  AmbientSortInputAt(topo, v_extreme, AmbientHullEdge(topo, v_extreme))

AmbientSortInput(tm, topo) ==
  AmbientSortInputFrom(topo, ExtremeVert(tm, Face(tm, 0).vert[1], 0))

\* Does the radial sort called with a read tm out of bounds?
AmbientSortReadsOutOfBounds(tm, a) ==
  SortReadsOutOfBounds(tm, a.ehull, a.edge_tris, a.edge_tris[1], a.dummy_tri, a.extra_co)

\* Does the radial sort of find_ambient_cell read tm out of bounds?
AmbientSortOutOfBounds(tm, topo) ==
  AmbientSortReadsOutOfBounds(tm, AmbientSortInput(tm, topo))

\* The radial sort of find_ambient_cell.
AmbientSort(tm, a, oob_rev) ==
  SortTrisAroundEdge(tm, a.ehull, a.edge_tris, a.edge_tris[1], a.dummy_tri, a.extra_co,
                     oob_rev)

\* The triangle before (step = -1) or after (step = 1) the one at position
\* dummy_index (from 0) of the cyclic list sorted_tris.
CyclicNeighbour(sorted_tris, dummy_index, step) ==
  sorted_tris[((dummy_index + step + Len(sorted_tris)) % Len(sorted_tris)) + 1]

\* find_ambient_cell after the radial sort: [prev_above, next_above], the
\* cell_above of the patches before and after the dummy triangle.
AmbientPick(pinfo, sorted_tris) ==
  [prev_above |->
     pinfo.patch[TriPatch(pinfo, CyclicNeighbour(sorted_tris,
        IndexOf(sorted_tris, EXTRA_TRI_INDEX) - 1, -1)) + 1].cell_above,
   next_above |->
     pinfo.patch[TriPatch(pinfo, CyclicNeighbour(sorted_tris,
        IndexOf(sorted_tris, EXTRA_TRI_INDEX) - 1, 1)) + 1].cell_above]

\* find_ambient_cell from the radial sort on.
AmbientNeighbours(tm, topo, pinfo, oob_rev) ==
  AmbientPick(pinfo, AmbientSort(tm, AmbientSortInput(tm, topo), oob_rev))

\* find_ambient_cell: the value returned.
FindAmbientCell(tm, topo, pinfo, oob_rev) ==
  AmbientNeighbours(tm, topo, pinfo, oob_rev).prev_above

(***************************************************************************)
(* apply_bool_op and the winding of a cell.                                *)
(***************************************************************************)
RECURSIVE AnyZeroFrom(_, _)
\* Is there a zero at position i (from 0) or later?  (a loop that returns
\* at the first zero)
AnyZeroFrom(winding, i) ==
  IF i >= Len(winding) THEN FALSE
  ELSE IF winding[i + 1] = 0 THEN TRUE
  ELSE AnyZeroFrom(winding, i + 1)

RECURSIVE AnyNonzeroFrom(_, _)
AnyNonzeroFrom(winding, i) ==
  IF i >= Len(winding) THEN FALSE
  ELSE IF winding[i + 1] # 0 THEN TRUE
  ELSE AnyNonzeroFrom(winding, i + 1)

\* apply_bool_op with a difference that wants every later winding zero.
ApplyBoolOp_AllRestZero(bool_optype, winding) ==
  CASE bool_optype = BOOLEAN_ISECT -> ~AnyZeroFrom(winding, 0)
    [] bool_optype = BOOLEAN_UNION -> AnyNonzeroFrom(winding, 0)
    [] bool_optype = BOOLEAN_DIFFERENCE ->
         winding[1] # 0 /\ ~AnyNonzeroFrom(winding, 1)
    [] OTHER -> FALSE

\* apply_bool_op
ApplyBoolOp(bool_optype, winding) ==
  LET nw == Len(winding)
  IN CASE bool_optype = BOOLEAN_ISECT -> ~AnyZeroFrom(winding, 0)
       [] bool_optype = BOOLEAN_UNION -> AnyNonzeroFrom(winding, 0)
       [] bool_optype = BOOLEAN_DIFFERENCE ->
            IF winding[1] = 0 THEN FALSE
            ELSE IF nw = 1 THEN TRUE
            ELSE AnyZeroFrom(winding, 1)
       [] OTHER -> FALSE

\* Cell::init_winding: an array of winding_len ints that are not initialized;
\* garbage is the value they happen to hold.
InitWinding(cell, winding_len, garbage) ==
  [cell EXCEPT !.winding = [i \in 1..winding_len |-> garbage]]

\* CellsInfo::init_windings
InitWindings(cinfo, winding_len, garbage) ==
  [c \in DOMAIN cinfo |-> InitWinding(cinfo[c], winding_len, garbage)]

\* Cell::seed_ambient_winding
SeedAmbientWinding(cell) ==
  [cell EXCEPT !.winding = [i \in DOMAIN @ |-> 0], !.winding_assigned = TRUE]

\* set_winding_and_flag that decides the flag before it adds delta.
SetWindingAndFlag_FlagBeforeDelta(cell, from_cell, shape, delta, bool_optype) ==
  LET w == [i \in DOMAIN cell.winding |->
              IF i = shape + 1 THEN from_cell.winding[i] + delta
                               ELSE from_cell.winding[i]]
  IN [cell EXCEPT !.winding = w, !.winding_assigned = TRUE,
                  !.flag = ApplyBoolOp(bool_optype, from_cell.winding)]

\* Cell::set_winding_and_flag
SetWindingAndFlag(cell, from_cell, shape, delta, bool_optype) ==
  LET w == [i \in DOMAIN cell.winding |->
              IF i = shape + 1 THEN from_cell.winding[i] + delta
                               ELSE from_cell.winding[i]]
  IN [cell EXCEPT !.winding = w, !.winding_assigned = TRUE,
                  !.flag = ApplyBoolOp(bool_optype, w)]

\* boolean_trimesh, the lambda si_shape_fn: the shape of triangle t of tm_si.
SiShapeFn(shape_fn, tm, t) == shape_fn[Face(tm, t).orig]

\* The body of the propagation loop with the two winding deltas exchanged.
PropagateBody_DeltaSwapped(pinfo, cinfo, queue, c, p, bool_optype, tm, shape_fn) ==
  LET patch == pinfo.patch[p + 1]
      p_above_c == patch.cell_below = c
      c_neighbor == IF p_above_c THEN patch.cell_above ELSE patch.cell_below
      winding_delta == IF p_above_c THEN 1 ELSE -1
      shape == SiShapeFn(shape_fn, tm, patch.tri[1])
  IN IF ~cinfo[c_neighbor + 1].winding_assigned
       THEN [cinfo |-> [cinfo EXCEPT ![c_neighbor + 1] =
                          SetWindingAndFlag(@, cinfo[c + 1], shape, winding_delta,
                                            bool_optype)],
             queue |-> Append(queue, c_neighbor)]
       ELSE [cinfo |-> cinfo, queue |-> queue]

\* The body of the propagation loop without the test of winding_assigned.
PropagateBody_NoAssignedTest(pinfo, cinfo, queue, c, p, bool_optype, tm, shape_fn) ==
  LET patch == pinfo.patch[p + 1]
      p_above_c == patch.cell_below = c
      c_neighbor == IF p_above_c THEN patch.cell_above ELSE patch.cell_below
      winding_delta == IF p_above_c THEN -1 ELSE 1
      shape == SiShapeFn(shape_fn, tm, patch.tri[1])
  IN [cinfo |-> [cinfo EXCEPT ![c_neighbor + 1] =
                   SetWindingAndFlag(@, cinfo[c + 1], shape, winding_delta,
                                     bool_optype)],
      queue |-> Append(queue, c_neighbor)]

\* propagate_windings_and_flag, the body of the loop over the patches of
\* cell c for patch p: [cinfo, queue].
PropagateBody(pinfo, cinfo, queue, c, p, bool_optype, tm, shape_fn) ==
  LET patch == pinfo.patch[p + 1]
      p_above_c == patch.cell_below = c
      c_neighbor == IF p_above_c THEN patch.cell_above ELSE patch.cell_below
      winding_delta == IF p_above_c THEN -1 ELSE 1
      shape == SiShapeFn(shape_fn, tm, patch.tri[1])
  IN IF ~cinfo[c_neighbor + 1].winding_assigned
       THEN [cinfo |-> [cinfo EXCEPT ![c_neighbor + 1] =
                          SetWindingAndFlag(@, cinfo[c + 1], shape, winding_delta,
                                            bool_optype)],
             queue |-> Append(queue, c_neighbor)]
       ELSE [cinfo |-> cinfo, queue |-> queue]

(***************************************************************************)
(* extract_from_flag_diffs                                                 *)
(***************************************************************************)
\* A flipped face that keeps the edge origs in their old positions.
FlippedFace_EdgeOrigsKept(tri) ==
  AddFace(<<tri.vert[1], tri.vert[3], tri.vert[2]>>, tri.orig, tri.edge_orig)

\* The face appended for a triangle that is flipped.
FlippedFace(tri) ==
  AddFace(<<tri.vert[1], tri.vert[3], tri.vert[2]>>, tri.orig,
          <<tri.edge_orig[3], tri.edge_orig[2], tri.edge_orig[1]>>)

\* The extraction loop body that keeps a triangle when either cell is flagged.
ExtractBody_EitherFlag(tm_subdivided, pinfo, cinfo, out, t) ==
  LET patch == pinfo.patch[TriPatch(pinfo, t) + 1]
      cell_above == cinfo[patch.cell_above + 1]
      cell_below == cinfo[patch.cell_below + 1]
      f == Face(tm_subdivided, t)
  IN IF cell_above.flag \/ cell_below.flag
       THEN (IF cell_above.flag THEN Append(out, FlippedFace(f))
                                ELSE Append(out, f))
       ELSE out

\* The body of the loop for triangle t: out_tris afterwards.
ExtractBody(tm_subdivided, pinfo, cinfo, out, t) ==
  LET patch == pinfo.patch[TriPatch(pinfo, t) + 1]
      cell_above == cinfo[patch.cell_above + 1]
      cell_below == cinfo[patch.cell_below + 1]
      f == Face(tm_subdivided, t)
  IN IF cell_above.flag # cell_below.flag
       THEN (IF cell_above.flag THEN Append(out, FlippedFace(f))
                                ELSE Append(out, f))
       ELSE out

(***************************************************************************)
(* The detriangulator: polymesh_from_trimesh_with_dissolve.  Its meshes    *)
(* use the vertices below; a vertex has an exact coordinate and an orig,   *)
(* NO_INDEX for a vertex the intersection made.                            *)
(***************************************************************************)
PolyVertCo ==
  << <<0, 0, 0>>,    \* 0..3: the corners of a square
     <<2, 0, 0>>,
     <<2, 2, 0>>,
     <<0, 2, 0>>,
     <<1, 0, 0>>,    \* 4: the middle of side 0-1
     <<1, 1, 0>>,    \* 5: the centre
     <<0, -2, 0>>,   \* 6: a corner of the face below side 0-1
     <<1, 2, 1>> >>  \* 7: a point off the plane

\* Vert::orig
PolyVertOrig == <<0, 1, 2, 3, NO_INDEX, NO_INDEX, 4, NO_INDEX>>

\* pm_in: a quad, a triangle below it and a triangle that leaves no output.
PolyIn ==
  << AddFace(<<0, 1, 2, 3>>, 0, <<0, 1, 2, 3>>),
     AddFace(<<1, 0, 6>>, 1, <<0, 4, 5>>),
     AddFace(<<0, 3, 6>>, 2, <<3, 6, 4>>) >>

\* The original edge that the side a-b of an output triangle lies on,
\* NO_INDEX when it is no input edge.  The sides in kept lie on an edge of
\* another input face, 7.
SideOrig(a, b, kept) ==
  LET s == {a, b}
  IN IF s \in {{0, 1}, {0, 4}, {1, 4}} THEN 0
     ELSE IF s = {1, 2} THEN 1
     ELSE IF s = {2, 3} THEN 2
     ELSE IF s = {0, 3} THEN 3
     ELSE IF s = {0, 6} THEN 4
     ELSE IF s = {1, 6} THEN 5
     ELSE IF s = {3, 6} THEN 6
     ELSE IF s \in kept THEN 7
     ELSE NO_INDEX

\* An output triangle of input face orig.
OutTri(vs, orig, kept) ==
  AddFace(vs, orig, <<SideOrig(vs[1], vs[2], kept), SideOrig(vs[2], vs[3], kept),
                      SideOrig(vs[3], vs[1], kept)>>)

\* Lists of output triangles <<vertices, orig>>.
TriLists ==
  { <<>>,
    << << <<0, 1, 2>>, 0 >>, << <<0, 2, 3>>, 0 >> >>,
    << << <<1, 2, 3>>, 0 >>, << <<1, 3, 0>>, 0 >>, << <<1, 0, 6>>, 1 >> >>,
    << << <<0, 1, 5>>, 0 >>, << <<1, 2, 5>>, 0 >>, << <<2, 3, 5>>, 0 >>,
       << <<3, 0, 5>>, 0 >> >>,
    << << <<0, 4, 3>>, 0 >>, << <<4, 0, 6>>, 1 >>, << <<4, 1, 2>>, 0 >>,
       << <<1, 4, 6>>, 1 >>, << <<4, 2, 3>>, 0 >> >>,
    << << <<0, 4, 5>>, 0 >>, << <<4, 1, 5>>, 0 >>, << <<1, 2, 5>>, 0 >>,
       << <<2, 3, 5>>, 0 >>, << <<3, 0, 5>>, 0 >> >>,
    << << <<0, 1, 2>>, 0 >>, << <<0, 3, 2>>, 0 >> >>,
    << << <<0, 1, 2>>, 0 >>, << <<0, 2, 7>>, 0 >>, << <<0, 2, 3>>, 0 >> >>,
    << << <<0, 4, 3>>, 0 >>, << <<4, 1, 3>>, 0 >> >> }

\* The sides that may lie on an edge of another input face.
KeptSets == { {}, {{0, 2}}, {{1, 5}}, {{4, 5}, {3, 5}}, {{2, 4}}, {{0, 5}, {1, 5}} }

\* The meshes tm_out.
PolyOut ==
  { [t \in DOMAIN l |-> OutTri(l[t][1], l[t][2], kept)] : l \in TriLists, kept \in KeptSets }

(***************************************************************************)
(* FaceMergeState: face is the list of MergeFace records                   *)
(* [vert, edge, merge_to, orig], edge the list of MergeEdge records        *)
(* [len_squared, v1, v2, left_face, right_face, orig, dissolvable],        *)
(* edge_map the map from <<v1, v2>> to an index of edge.  asserted tells   *)
(* that a BLI_assert of init_face_merge_state was false.                   *)
(***************************************************************************)
NewFaceMergeState == [face |-> <<>>, edge |-> <<>>, edge_map |-> EmptyMap,
                      asserted |-> FALSE]

\* MergeEdge::MergeEdge(va, vb) with the fields set for a new map entry.
NewMergeEdge(va, vb, edge_orig) ==
  [len_squared |-> (PolyVertCo[vb + 1][1] - PolyVertCo[va + 1][1])
                     * (PolyVertCo[vb + 1][1] - PolyVertCo[va + 1][1])
                   + (PolyVertCo[vb + 1][2] - PolyVertCo[va + 1][2])
                       * (PolyVertCo[vb + 1][2] - PolyVertCo[va + 1][2])
                   + (PolyVertCo[vb + 1][3] - PolyVertCo[va + 1][3])
                       * (PolyVertCo[vb + 1][3] - PolyVertCo[va + 1][3]),
   v1 |-> IF va < vb THEN va ELSE vb,
   v2 |-> IF va < vb THEN vb ELSE va,
   left_face |-> -1, right_face |-> -1,
   orig |-> edge_orig, dissolvable |-> (edge_orig = NO_INDEX)]

\* init_face_merge_state: the edge list and map after the lookup of side i
\* of tri, with a new edge appended when the map has none.
FmsFindEdge(fms, tri, i) ==
  LET va == tri.vert[i + 1]
      vb == tri.vert[((i + 1) % 3) + 1]
      canon_vs == IF va < vb THEN <<va, vb>> ELSE <<vb, va>>
  IN IF Lookup(fms.edge_map, canon_vs, -1) = -1
       THEN [fms EXCEPT !.edge = Append(@, NewMergeEdge(va, vb, tri.edge_orig[i + 1])),
                        !.edge_map = MapSet(@, canon_vs, Len(fms.edge))]
       ELSE fms

\* init_face_merge_state: the rest of the inner loop body for side i of
\* tri, which is face f, on the state found has the edge me_index in.
FmsBindSide(found, tri, f, i, me_index) ==
  LET me == found.edge[me_index + 1]
      real == me.dissolvable /\ tri.edge_orig[i + 1] # NO_INDEX
      is_left == me.v1 = tri.vert[i + 1]
  IN [found EXCEPT
        !.edge[me_index + 1].dissolvable = IF real THEN FALSE ELSE @,
        !.edge[me_index + 1].orig = IF real THEN tri.edge_orig[i + 1] ELSE @,
        !.edge[me_index + 1].left_face = IF is_left THEN f ELSE @,
        !.edge[me_index + 1].right_face = IF is_left THEN @ ELSE f,
        !.face[f + 1].edge = Append(@, me_index),
        !.asserted = @ \/ (IF is_left THEN me.left_face # -1 ELSE me.right_face # -1)]

\* init_face_merge_state: the inner loop body for side i of tri.
FmsAddSide(fms, tri, f, i) ==
  LET va == tri.vert[i + 1]
      vb == tri.vert[((i + 1) % 3) + 1]
      canon_vs == IF va < vb THEN <<va, vb>> ELSE <<vb, va>>
  IN FmsBindSide(FmsFindEdge(fms, tri, i), tri, f, i,
                 Lookup(FmsFindEdge(fms, tri, i).edge_map, canon_vs, -1))

\* init_face_merge_state: the outer loop body for the triangle tri.  The
\* MergeFace gets the three vertices of tri; merge_to and orig keep their
\* initializers.
FmsAddTri(fms, tri) ==
  LET f == Len(fms.face)
      mf == [vert |-> tri.vert, edge |-> <<>>, merge_to |-> -1, orig |-> -1]
      start == [fms EXCEPT !.face = Append(@, mf)]
  IN FmsAddSide(FmsAddSide(FmsAddSide(start, tri, f, 0), tri, f, 1), tri, f, 2)

RECURSIVE FmsAddTris(_, _, _, _)
\* init_face_merge_state: the loop over tris from position t (from 0).
FmsAddTris(fms, tris, tm, t) ==
  IF t >= Len(tris) THEN fms
  ELSE FmsAddTris(FmsAddTri(fms, Face(tm, tris[t + 1])), tris, tm, t + 1)

\* init_face_merge_state
InitFaceMergeState(tris, tm) == FmsAddTris(NewFaceMergeState, tris, tm, 0)

\* The lists that hold each element of the set S once.
Orderings(S) ==
  {s \in [1..Cardinality(S) -> S] : \A i, j \in DOMAIN s : s[i] = s[j] => i = j}

\* Vector::first_index_of_try: the position (from 0) of x in s, -1 if none.
FirstIndexOfTry(s, x) ==
  IF \E i \in DOMAIN s : s[i] = x
    THEN (CHOOSE i \in DOMAIN s : s[i] = x /\ \A j \in 1..(i - 1) : s[j] # x) - 1
    ELSE -1

\* dissolve_leaves_valid_bmesh without the loop over the vertices.
DissolveLeavesValidBmesh_NoVertexTest(fms, me_index) ==
  LET me == fms.edge[me_index + 1]
      mf_left == fms.face[me.left_face + 1]
      a_edge_start == FirstIndexOfTry(mf_left.edge, me_index)
  IN \A a_e_index \in 0..(Len(mf_left.vert) - 1) :
       a_e_index # a_edge_start
         => fms.edge[mf_left.edge[a_e_index + 1] + 1].right_face # me.right_face

\* dissolve_leaves_valid_bmesh for the edge me_index, whose left and right
\* faces are set and have it.
DissolveLeavesValidBmesh(fms, me_index) ==
  LET me == fms.edge[me_index + 1]
      mf_left == fms.face[me.left_face + 1]
      mf_right == fms.face[me.right_face + 1]
      a_edge_start == FirstIndexOfTry(mf_left.edge, me_index)
  IN /\ \A a_e_index \in 0..(Len(mf_left.vert) - 1) :
          a_e_index # a_edge_start
            => fms.edge[mf_left.edge[a_e_index + 1] + 1].right_face # me.right_face
     /\ \A a_v_index \in 1..Len(mf_left.vert) :
          mf_left.vert[a_v_index] \notin {me.v1, me.v2}
            => \A b_v_index \in 1..Len(mf_right.vert) :
                 mf_left.vert[a_v_index] # mf_right.vert[b_v_index]

\* splice_faces with the sides of the edges of mf_right left as they were.
SpliceRetarget_NotRetargeted(edge, mf_right, b_edge_start, to, k) == edge

RECURSIVE SpliceRetarget(_, _, _, _, _)
\* splice_faces, the loop over the positions b_edge_start + 1, ... of
\* mf_right from the k-th on: the side of each edge that mf_right was on is
\* given to the face to.
SpliceRetarget(edge, mf_right, b_edge_start, to, k) ==
  IF k >= Len(mf_right.vert) THEN edge
  ELSE
    LET bi == (b_edge_start + k) % Len(mf_right.vert)
        e == mf_right.edge[bi + 1]
    IN SpliceRetarget(
         IF mf_right.vert[bi + 1] = edge[e + 1].v1
           THEN [edge EXCEPT ![e + 1].left_face = to]
           ELSE [edge EXCEPT ![e + 1].right_face = to],
         mf_right, b_edge_start, to, k + 1)

\* splice_faces, the spliced list (of vert or of edge): a up to
\* a_edge_start, the elements of b at the positions b_edge_start + 1, ...,
\* around to b_edge_start - 1, then a after a_edge_start.
SpliceList(a, b, a_edge_start, b_edge_start) ==
  SubSeq(a, 1, a_edge_start)
    \o [k \in 1..(Len(b) - 1) |-> b[((b_edge_start + k) % Len(b)) + 1]]
    \o SubSeq(a, a_edge_start + 2, Len(a))

\* splice_faces for the edge me_index.
SpliceFaces(fms, me_index) ==
  LET me == fms.edge[me_index + 1]
      mf_left == fms.face[me.left_face + 1]
      mf_right == fms.face[me.right_face + 1]
      a_edge_start == FirstIndexOfTry(mf_left.edge, me_index)
      b_edge_start == FirstIndexOfTry(mf_right.edge, me_index)
      retargeted == SpliceRetarget(fms.edge, mf_right, b_edge_start, me.left_face, 1)
      merged == [fms.face EXCEPT ![me.right_face + 1].merge_to = me.left_face]
  IN [fms EXCEPT
        !.face = [merged EXCEPT
                    ![me.left_face + 1].vert =
                       SpliceList(mf_left.vert, mf_right.vert, a_edge_start, b_edge_start),
                    ![me.left_face + 1].edge =
                       SpliceList(mf_left.edge, mf_right.edge, a_edge_start, b_edge_start)],
        !.edge = [retargeted EXCEPT ![me_index + 1].left_face = -1,
                                    ![me_index + 1].right_face = -1]]

\* do_dissolve: the orders std::sort may leave dissolve_edges, the edges
\* that are dissolvable, in: longer edges first and edges of one length in
\* any order.
SortedDissolveEdges(fms) ==
  {s \in Orderings({e \in 0..(Len(fms.edge) - 1) : fms.edge[e + 1].dissolvable}) :
     \A i \in 1..(Len(s) - 1) :
       fms.edge[s[i] + 1].len_squared >= fms.edge[s[i + 1] + 1].len_squared}

\* do_dissolve: the body of the loop for the edge me_index.  A face that
\* does not have the edge it is recorded for stops the program (asserted).
DoDissolveBody(fms, me_index) ==
  LET me == fms.edge[me_index + 1]
  IN IF me.left_face = -1 \/ me.right_face = -1 THEN fms
     ELSE IF \/ FirstIndexOfTry(fms.face[me.left_face + 1].edge, me_index) = -1
             \/ FirstIndexOfTry(fms.face[me.right_face + 1].edge, me_index) = -1
       THEN [fms EXCEPT !.asserted = TRUE]
     ELSE IF ~DissolveLeavesValidBmesh(fms, me_index) THEN fms
     ELSE SpliceFaces(fms, me_index)

\* find_tris_common_edge: <<i, j>>, the positions in tri1 and tri2 where the
\* edge they have in opposite directions starts, <<-1, -1>> if none.
FindTrisCommonEdge(tri1, tri2) ==
  LET common == {p \in (0..2) \X (0..2) :
                   /\ tri1.vert[((p[1] + 1) % 3) + 1] = tri2.vert[p[2] + 1]
                   /\ tri1.vert[p[1] + 1] = tri2.vert[((p[2] + 1) % 3) + 1]}
  IN IF common = {} THEN <<-1, -1>>
     ELSE CHOOSE p \in common :
            \A q \in common : p[1] < q[1] \/ (p[1] = q[1] /\ p[2] <= q[2])

\* Face::cyclic_equal: the vertices of a are those of b from some position on.
CyclicEqual(a, b) ==
  /\ Len(a) = Len(b)
  /\ \E start \in 0..(Len(a) - 1) :
       \A i \in 0..(Len(a) - 1) : a[i + 1] = b[((start + i) % Len(b)) + 1]

\* merge_tris_for_face: the quad of two triangles that have the edge
\* estarts in common.
QuadOf(tri1, tri2, estarts) ==
  << tri1.vert[((estarts[1] + 1) % 3) + 1], tri1.vert[((estarts[1] + 2) % 3) + 1],
     tri1.vert[estarts[1] + 1], tri2.vert[((estarts[2] + 2) % 3) + 1] >>

\* merge_tris_for_face: does the test for an unchanged quad succeed?
IsUnchangedQuad(tris, tm, pm_in) ==
  /\ Len(tris) = 2
  /\ Len(Face(pm_in, Face(tm, tris[1]).orig).vert) = 4
  /\ FindTrisCommonEdge(Face(tm, tris[1]), Face(tm, tris[2]))[1] # -1
  /\ Face(tm, tris[1]).edge_orig[
       FindTrisCommonEdge(Face(tm, tris[1]), Face(tm, tris[2]))[1] + 1] = NO_INDEX
  /\ CyclicEqual(QuadOf(Face(tm, tris[1]), Face(tm, tris[2]),
                        FindTrisCommonEdge(Face(tm, tris[1]), Face(tm, tris[2]))),
                 Face(pm_in, Face(tm, tris[1]).orig).vert)

\* merge_tris_for_face: the faces returned without a FaceMergeState, for one
\* triangle or an unchanged quad.
FastPathFaces(tris, tm, pm_in) ==
  IF Len(tris) = 1 THEN <<Face(tm, tris[1])>>
  ELSE <<Face(pm_in, Face(tm, tris[1]).orig)>>

\* merge_tris_for_face: is the answer found without a FaceMergeState?
IsFastPath(tris, tm, pm_in) == Len(tris) = 1 \/ IsUnchangedQuad(tris, tm, pm_in)

\* merge_tris_for_face: the faces made after do_dissolve, one for each
\* MergeFace with merge_to == -1, of its vert, its orig and the origs of
\* its edges.
EmittedFaces(fms) ==
  LET live == SelectSeq(fms.face, LAMBDA mf : mf.merge_to = -1)
  IN [i \in DOMAIN live |->
        AddFace(live[i].vert, live[i].orig,
                [j \in DOMAIN live[i].edge |-> fms.edge[live[i].edge[j] + 1].orig])]

(***************************************************************************)
(* Dissolving vertices.  The arrays that parallel pm_out.vert are          *)
(* functions of the vertex.                                                *)
(***************************************************************************)
\* Mesh::populate_vert: the vertices of the faces of pm, each once.
PopulateVert(pm) == UNION {Range(pm[f].vert) : f \in DOMAIN pm}

\* mpq3 subtraction.
Sub3(a, b) == <<a[1] - b[1], a[2] - b[2], a[3] - b[3]>>

\* mpq3::cross
Cross3(a, b) ==
  <<a[2] * b[3] - a[3] * b[2], a[3] * b[1] - a[1] * b[3], a[1] * b[2] - a[2] * b[1]>>

\* find_dissolve_verts: dissolve after the first loop, neighbors as
\* constructed; <<>> is the pair of null pointers.
NewDissolveState(pm) ==
  [dissolve |-> [v \in PopulateVert(pm) |-> PolyVertOrig[v + 1] = NO_INDEX],
   neighbors |-> [v \in PopulateVert(pm) |-> <<>>]]

\* find_dissolve_verts: the body of the loop over the positions of a face.
NeighborBody(st, face, i) ==
  LET v == face.vert[i + 1]
      n1 == face.vert[((i + 1) % Len(face.vert)) + 1]
      n2 == face.vert[((i + Len(face.vert) - 1) % Len(face.vert)) + 1]
      f_n == st.neighbors[v]
  IN IF ~st.dissolve[v] THEN st
     ELSE IF f_n # <<>>
       THEN (IF ~((n1 = f_n[2] /\ n2 = f_n[1]) \/ (n1 = f_n[1] /\ n2 = f_n[2]))
               THEN [st EXCEPT !.dissolve[v] = FALSE]
               ELSE st)
     ELSE [st EXCEPT !.neighbors[v] = <<n1, n2>>]

RECURSIVE NeighborLoop(_, _, _, _)
\* find_dissolve_verts: the loops over the faces of pm from face f (from 0)
\* and position i on.
NeighborLoop(st, pm, f, i) ==
  IF f >= Len(pm) THEN st
  ELSE IF i >= Len(pm[f + 1].vert) THEN NeighborLoop(st, pm, f + 1, 0)
  ELSE NeighborLoop(NeighborBody(st, pm[f + 1], i), pm, f, i + 1)

\* The last loop of find_dissolve_verts without the test of the cross
\* product.
InLine_NotTested(v_out, nbrs) == TRUE

\* find_dissolve_verts: is the cross product of co - co1 and co2 - co zero
\* for the vertex v_out with the neighbours nbrs?
InLine(v_out, nbrs) ==
  LET co1 == PolyVertCo[nbrs[1] + 1]
      co2 == PolyVertCo[nbrs[2] + 1]
      co == PolyVertCo[v_out + 1]
      cross == Cross3(Sub3(co, co1), Sub3(co2, co))
  IN cross[1] = 0 /\ cross[2] = 0 /\ cross[3] = 0

\* find_dissolve_verts: the array returned, dissolve after the last loop.
FindDissolveVerts(pm) ==
  LET st == NeighborLoop(NewDissolveState(pm), pm, 0, 0)
  IN [v_out \in DOMAIN st.dissolve |->
        /\ st.dissolve[v_out]
        /\ st.neighbors[v_out] # <<>>
        /\ InLine(v_out, st.neighbors[v_out])]

\* find_dissolve_verts: *r_count_dissolve
CountDissolve(dissolve) == Cardinality({v \in DOMAIN dissolve : dissolve[v]})

\* Mesh::erase_face_positions: the face with the positions of face_pos_erase
\* taken out of vert and edge_orig.
EraseFacePositions(face, face_pos_erase) ==
  LET keep == SelectSeq([i \in DOMAIN face.vert |-> i], LAMBDA i : ~face_pos_erase[i])
  IN AddFace([k \in DOMAIN keep |-> face.vert[keep[k]]], face.orig,
             [k \in DOMAIN keep |-> face.edge_orig[keep[k]]])

\* dissolve_verts: each face with a vertex to erase is replaced.
DissolveVerts(pm, dissolve) ==
  [f \in DOMAIN pm |->
     IF \E i \in DOMAIN pm[f].vert : dissolve[pm[f].vert[i]]
       THEN EraseFacePositions(pm[f], [i \in DOMAIN pm[f].vert |-> dissolve[pm[f].vert[i]]])
       ELSE pm[f]]

\* polymesh_from_trimesh_with_dissolve: face_output_tris after the loop over
\* the triangles of tm_out.
GatherOutputTris(tm_out, tot_in_face) ==
  [in_face \in 1..tot_in_face |->
     SelectSeq([t \in 1..Len(tm_out) |-> t - 1],
               LAMBDA t : Face(tm_out, t).orig = in_face - 1)]

RECURSIVE CopyFaces_Descending(_, _)
\* The array face filled in descending order of the input face.
CopyFaces_Descending(face_output_face, in_f) ==
  IF in_f >= Len(face_output_face) THEN <<>>
  ELSE CopyFaces_Descending(face_output_face, in_f + 1) \o face_output_face[in_f + 1]

RECURSIVE CopyFaces(_, _)
\* polymesh_from_trimesh_with_dissolve: the array face filled from the lists
\* face_output_face from input face in_f (from 0) on.
CopyFaces(face_output_face, in_f) ==
  IF in_f >= Len(face_output_face) THEN <<>>
  ELSE face_output_face[in_f + 1] \o CopyFaces(face_output_face, in_f + 1)

(***************************************************************************)
(* The state.                                                              *)
(***************************************************************************)
VARIABLES
  tm_in,        \* boolean_trimesh: the input mesh
  op,           \* the operator
  nshapes,      \* the number of shapes
  shape_fn,     \* the shape of each input face
  use_self,     \* which intersection is called
  with_assert,  \* whether BLI_assert aborts (a debug build)
  pc,           \* where boolean_trimesh is
  stages,       \* the stages called so far, in order
  tm_si,        \* the intersected mesh
  topo,         \* tm_si_topo
  tt,           \* TriMeshTopology: the triangle t of its loop
  pinfo,        \* the PatchesInfo
  fp,           \* find_patches: [t, cur_patch_index, cur_patch_grow]
  cinfo,        \* the CellsInfo
  fc,           \* find_cells: [p, q, processed_edges, e, sorted_tris, i] and
                \* conflict: "MERGE CELLS" was printed for the last edge
  c_ambient,    \* the ambient cell
  pw,           \* propagate_windings_and_flag: [queue, queue_head, c, k]
  ex,           \* extract_from_flag_diffs: [t, out_tris]
  result,       \* the mesh that boolean_trimesh returns
  bo,           \* a call of apply_bool_op on its own: [pc, op, winding, res]
  so,           \* a call of sort_tris_around_edge on its own: [pc, tm, e, tris,
                \* t0, extra_tri, extra_co, out]
  dt            \* a call of polymesh_from_trimesh_with_dissolve on its own

vars == <<tm_in, op, nshapes, shape_fn, use_self, with_assert, pc, stages, tm_si,
          topo, tt, pinfo, fp, cinfo, fc, c_ambient, pw, ex, result, bo, so, dt>>

inputs == <<tm_in, op, nshapes, shape_fn, use_self, with_assert>>

\* Values of the locals before the stage that sets them has run.
NoFp == [t |-> 0, cur_patch_index |-> NO_INDEX, cur_patch_grow |-> <<>>]
NoFc == [p |-> 0, q |-> 0, processed_edges |-> {}, e |-> NullEdge,
         sorted_tris |-> <<>>, i |-> 0, conflict |-> FALSE]
NoPw == [queue |-> <<>>, queue_head |-> 0, c |-> NO_INDEX, k |-> 0]
NoEx == [t |-> 0, out_tris |-> <<>>]
NoBo == [pc |-> "idle", op |-> 0, winding |-> <<0>>, res |-> FALSE]
NoSo == [pc |-> "idle", tm |-> <<>>, e |-> NullEdge, tris |-> <<>>, t0 |-> NO_INDEX,
         extra_tri |-> <<>>, extra_co |-> <<>>, out |-> <<>>]
NoDt == [pc |-> "idle", tm_out |-> <<>>, face_output_tris |-> <<>>, in_f |-> 0,
         fms |-> NewFaceMergeState, dissolve_edges |-> <<>>, k |-> 0,
         face_output_face |-> <<>>, pm_out |-> <<>>, v_dissolve |-> <<>>,
         count_dissolve |-> 0]

\* The values an int that was never initialized is taken to hold.
GarbageInts == {0, 7}

Init ==
  /\ tm_in \in Range(MeshLibrary)
  /\ op \in {BOOLEAN_NONE, BOOLEAN_ISECT, BOOLEAN_UNION, BOOLEAN_DIFFERENCE}
  /\ nshapes \in 1..MaxShapes
  /\ shape_fn \in ShapeFns(nshapes)
  /\ use_self \in BOOLEAN
  /\ with_assert \in BOOLEAN
  /\ pc = "start"
  /\ stages = <<>>
  /\ tm_si = <<>>
  /\ topo = NoTopo
  /\ tt = 0
  /\ pinfo = NewPatchesInfo(0)
  /\ fp = NoFp
  /\ cinfo = <<>>
  /\ fc = NoFc
  /\ c_ambient = NO_INDEX
  /\ pw = NoPw
  /\ ex = NoEx
  /\ result = <<>>
  /\ bo = NoBo
  /\ so = NoSo
  /\ dt = NoDt

(***************************************************************************)
(* boolean_trimesh, one action per stage or loop iteration.                *)
(***************************************************************************)
\* boolean_trimesh without the test for an empty input mesh.
Entry_NoEmptyTest ==
  /\ pc = "start"
  /\ result' = result
  /\ pc' = "intersect"
  /\ UNCHANGED <<inputs, stages, tm_si, topo, tt, pinfo, fp, cinfo, fc, c_ambient, pw, ex, bo, so, dt>>

\* The test for an empty input mesh.
Entry ==
  /\ pc = "start"
  /\ IF FaceSize(tm_in) = 0
       THEN result' = tm_in /\ pc' = "done"
       ELSE result' = result /\ pc' = "intersect"
  /\ UNCHANGED <<inputs, stages, tm_si, topo, tt, pinfo, fp, cinfo, fc, c_ambient, pw, ex, bo, so, dt>>

\* boolean_trimesh that goes on after the intersection when op is NONE.
Intersect_NoNoneTest ==
  /\ pc = "intersect"
  /\ stages' = Append(stages, IF use_self THEN "trimesh_self_intersect"
                                          ELSE "trimesh_nary_intersect")
  /\ tm_si' = TrimeshIntersect(tm_in)
  /\ IF FaceSize(tm_si') = 0
       THEN result' = tm_si' /\ pc' = "done"
       ELSE result' = result /\ pc' = "topology"
  /\ UNCHANGED <<inputs, topo, tt, pinfo, fp, cinfo, fc, c_ambient, pw, ex, bo, so, dt>>

\* The intersection, and the test for an empty result or operator NONE.
Intersect ==
  /\ pc = "intersect"
  /\ stages' = Append(stages, IF use_self THEN "trimesh_self_intersect"
                                          ELSE "trimesh_nary_intersect")
  /\ tm_si' = TrimeshIntersect(tm_in)
  /\ IF FaceSize(tm_si') = 0 \/ op = BOOLEAN_NONE
       THEN result' = tm_si' /\ pc' = "done"
       ELSE result' = result /\ pc' = "topology"
  /\ UNCHANGED <<inputs, topo, tt, pinfo, fp, cinfo, fc, c_ambient, pw, ex, bo, so, dt>>

\* TriMeshTopology tm_si_topo(tm_si), one iteration of the loop over the
\* triangles; after the last one, the entry of find_patches.
Topology ==
  /\ pc = "topology"
  /\ stages' = IF tt = 0 THEN Append(stages, "TriMeshTopology") ELSE stages
  /\ IF tt < FaceSize(tm_si)
       THEN /\ topo' = TopoAddTri(topo, tm_si, tt)
            /\ tt' = tt + 1
            /\ pc' = pc
            /\ UNCHANGED pinfo
       ELSE /\ pinfo' = NewPatchesInfo(FaceSize(tm_si))
            /\ pc' = "patches"
            /\ UNCHANGED <<topo, tt>>
  /\ UNCHANGED <<inputs, tm_si, fp, cinfo, fc, c_ambient, pw, ex, result, bo, so, dt>>

\* find_patches, one iteration of the loop over the triangles up to the
\* while loop; after the last one, the entry of find_cells.
PatchesSeed ==
  /\ pc = "patches"
  /\ fp.cur_patch_grow = <<>>
  /\ stages' = IF fp.t = 0 THEN Append(stages, "find_patches")
                ELSE IF fp.t >= FaceSize(tm_si) THEN Append(stages, "find_cells")
                ELSE stages
  /\ IF fp.t < FaceSize(tm_si)
       THEN /\ IF TriPatch(pinfo, fp.t) = -1
                 THEN /\ pinfo' = AddPatch(pinfo)
                      /\ fp' = [t |-> fp.t + 1,
                                cur_patch_index |-> Len(pinfo.patch),
                                cur_patch_grow |-> <<fp.t>>]
                 ELSE /\ pinfo' = pinfo
                      /\ fp' = [fp EXCEPT !.t = @ + 1]
            /\ pc' = pc
            /\ fc' = fc
       ELSE /\ LET first == FirstPair(Len(pinfo.patch))
               IN fc' = [NoFc EXCEPT !.p = first[1], !.q = first[2]]
            /\ pc' = "cells"
            /\ UNCHANGED <<pinfo, fp>>
  /\ UNCHANGED <<inputs, tm_si, topo, tt, cinfo, c_ambient, pw, ex, result, bo, so, dt>>

\* find_patches, one iteration of the while loop on cur_patch_grow.
PatchesGrow ==
  /\ pc = "patches"
  /\ fp.cur_patch_grow # <<>>
  /\ LET r == PatchGrowBody(pinfo, fp.cur_patch_grow, tm_si, topo, fp.cur_patch_index)
     IN /\ pinfo' = r.pinfo
        /\ fp' = [fp EXCEPT !.cur_patch_grow = r.stack]
  /\ UNCHANGED <<inputs, pc, stages, tm_si, topo, tt, cinfo, fc, c_ambient, pw, ex,
                 result, bo, so, dt>>

\* find_cells, one iteration of the inner loop over (p, q) up to the call of
\* find_cells_from_edge and its radial sort; after the last pair, the return.
CellsPair ==
  /\ pc = "cells"
  /\ fc.e = NullEdge
  /\ LET np == Len(pinfo.patch)
         e == PatchPatchEdge(pinfo, fc.p, fc.q)
         next == NextPair(fc.p, fc.q, np)
     IN IF fc.p >= np
          THEN pc' = "connected" /\ fc' = fc
          ELSE /\ pc' = pc
               /\ IF e # NullEdge /\ e \notin fc.processed_edges
                    THEN fc' = [fc EXCEPT
                           !.processed_edges = @ \cup {e},
                           !.e = e,
                           !.sorted_tris =
                              SortTrisAroundEdge(tm_si, e, EdgeTris(topo, e),
                                                 EdgeTris(topo, e)[1],
                                                 <<>>, <<>>, FALSE),
                           !.i = 0,
                           !.conflict = FALSE]
                    ELSE fc' = [fc EXCEPT !.p = next[1], !.q = next[2]]
  /\ UNCHANGED <<inputs, stages, tm_si, topo, tt, pinfo, fp, cinfo, c_ambient, pw,
                 ex, result, bo, so, dt>>

\* find_cells_from_edge, one iteration of the loop over the sorted triangles.
CellsFromEdge ==
  /\ pc = "cells"
  /\ fc.e # NullEdge
  /\ LET r == FindCellsFromEdgeBody(tm_si, pinfo, cinfo, fc.e, fc.sorted_tris, fc.i)
         next == NextPair(fc.p, fc.q, Len(pinfo.patch))
     IN IF r.conflict /\ with_assert
          THEN pc' = "abort" /\ UNCHANGED <<pinfo, cinfo, fc>>
          ELSE /\ pc' = pc
               /\ pinfo' = r.pinfo
               /\ cinfo' = r.cinfo
               /\ IF fc.i + 1 < Len(fc.sorted_tris)
                    THEN fc' = [fc EXCEPT !.i = @ + 1, !.conflict = @ \/ r.conflict]
                    ELSE fc' = [fc EXCEPT !.e = NullEdge, !.sorted_tris = <<>>,
                                          !.i = 0, !.p = next[1], !.q = next[2],
                                          !.conflict = @ \/ r.conflict]
  /\ UNCHANGED <<inputs, stages, tm_si, topo, tt, fp, c_ambient, pw, ex, result, bo, so, dt>>

\* The call of patch_cell_graph_connected.  A read of cell_reachable out of
\* bounds aborts where BLI_assert does; elsewhere it reads true, or the
\* program, having read false, writes out of bounds and uses cell(-1): crash.
Connected ==
  /\ pc = "connected"
  /\ stages' = Append(stages, "patch_cell_graph_connected")
  /\ LET r == PatchCellGraphConnected(cinfo, pinfo)
     IN \/ /\ r.oob
           /\ pc' = IF with_assert THEN "abort" ELSE "crash"
           /\ result' = result
        \/ /\ r.oob => ~with_assert
           /\ IF r.result THEN pc' = "ok" /\ result' = result
                          ELSE pc' = "done" /\ result' = tm_in
  /\ UNCHANGED <<inputs, tm_si, topo, tt, pinfo, fp, cinfo, fc, c_ambient, pw, ex, bo, so, dt>>

\* The call of patch_cell_graph_ok and of init_windings.
Ok ==
  /\ pc = "ok"
  /\ stages' = Append(stages, "patch_cell_graph_ok")
  /\ IF PatchCellGraphOk(cinfo, pinfo)
       THEN /\ \E garbage \in GarbageInts :
                 cinfo' = InitWindings(cinfo, nshapes, garbage)
            /\ pc' = "ambient"
            /\ result' = result
       ELSE /\ cinfo' = cinfo
            /\ pc' = "done"
            /\ result' = tm_in
  /\ UNCHANGED <<inputs, tm_si, topo, tt, pinfo, fp, fc, c_ambient, pw, ex, bo, so, dt>>

\* find_ambient_cell and the test of its result.  A read of tm out of bounds
\* in the radial sort aborts where BLI_assert does; elsewhere it crashes or
\* yields either orientation bit.
Ambient ==
  /\ pc = "ambient"
  /\ stages' = Append(stages, "find_ambient_cell")
  /\ \/ /\ AmbientSortOutOfBounds(tm_si, topo)
        /\ pc' = IF with_assert THEN "abort" ELSE "crash"
        /\ UNCHANGED <<c_ambient, result>>
     \/ /\ AmbientSortOutOfBounds(tm_si, topo) => ~with_assert
        /\ \E oob_rev \in (IF AmbientSortOutOfBounds(tm_si, topo) THEN BOOLEAN ELSE {FALSE}) :
             \E nb \in {AmbientNeighbours(tm_si, topo, pinfo, oob_rev)},
                c \in {FindAmbientCell(tm_si, topo, pinfo, oob_rev)} :
               IF with_assert /\ nb.prev_above # nb.next_above
                 THEN pc' = "abort" /\ UNCHANGED <<c_ambient, result>>
                 ELSE /\ c_ambient' = c
                      /\ IF c = NO_INDEX
                           THEN pc' = "done" /\ result' = tm_si
                           ELSE pc' = "propagate_entry" /\ result' = result
  /\ UNCHANGED <<inputs, tm_si, topo, tt, pinfo, fp, cinfo, fc, pw, ex, bo, so, dt>>

\* propagate_windings_and_flag up to its loop: the ambient cell is seeded
\* and queued.
PropagateEntry ==
  /\ pc = "propagate_entry"
  /\ stages' = Append(stages, "propagate_windings_and_flag")
  /\ cinfo' = [cinfo EXCEPT ![c_ambient + 1] = SeedAmbientWinding(@)]
  /\ pw' = [NoPw EXCEPT !.queue = <<c_ambient>>]
  /\ pc' = "propagate"
  /\ UNCHANGED <<inputs, tm_si, topo, tt, pinfo, fp, fc, c_ambient, ex, result, bo, so, dt>>

\* propagate_windings_and_flag, the test of the while loop: the next cell
\* is taken from the queue, or the function returns.
PropagateNextCell ==
  /\ pc = "propagate"
  /\ pw.c = NO_INDEX
  /\ IF pw.queue_head < Len(pw.queue)
       THEN LET c == pw.queue[pw.queue_head + 1]
            IN /\ pw' = [pw EXCEPT !.queue_head = @ + 1,
                                   !.c = IF Len(cinfo[c + 1].patches) = 0
                                           THEN NO_INDEX ELSE c,
                                   !.k = 0]
               /\ pc' = pc
       ELSE pw' = pw /\ pc' = "extract"
  /\ UNCHANGED <<inputs, stages, tm_si, topo, tt, pinfo, fp, cinfo, fc, c_ambient,
                 ex, result, bo, so, dt>>

\* propagate_windings_and_flag, one iteration of the loop over the patches
\* of the cell pw.c.
PropagatePatch ==
  /\ pc = "propagate"
  /\ pw.c # NO_INDEX
  /\ LET patches == cinfo[pw.c + 1].patches
         r == PropagateBody(pinfo, cinfo, pw.queue, pw.c, patches[pw.k + 1], op,
                            tm_si, shape_fn)
     IN /\ cinfo' = r.cinfo
        /\ pw' = [pw EXCEPT !.queue = r.queue,
                            !.k = IF pw.k + 1 < Len(patches) THEN pw.k + 1 ELSE 0,
                            !.c = IF pw.k + 1 < Len(patches) THEN pw.c ELSE NO_INDEX]
  /\ UNCHANGED <<inputs, pc, stages, tm_si, topo, tt, pinfo, fp, fc, c_ambient, ex,
                 result, bo, so, dt>>

\* extract_from_flag_diffs, one iteration of the loop over the triangles;
\* after the last one boolean_trimesh returns the mesh of out_tris.
Extract ==
  /\ pc = "extract"
  /\ stages' = IF ex.t = 0 THEN Append(stages, "extract_from_flag_diffs") ELSE stages
  /\ IF ex.t < FaceSize(tm_si)
       THEN /\ ex' = [t |-> ex.t + 1,
                      out_tris |-> ExtractBody(tm_si, pinfo, cinfo, ex.out_tris, ex.t)]
            /\ pc' = pc
            /\ result' = result
       ELSE /\ ex' = ex
            /\ pc' = "done"
            /\ result' = ex.out_tris
  /\ UNCHANGED <<inputs, tm_si, topo, tt, pinfo, fp, cinfo, fc, c_ambient, pw, bo, so, dt>>

Next ==
  \/ Entry
  \/ Intersect
  \/ Topology
  \/ PatchesSeed
  \/ PatchesGrow
  \/ CellsPair
  \/ CellsFromEdge
  \/ Connected
  \/ Ok
  \/ Ambient
  \/ PropagateEntry
  \/ PropagateNextCell
  \/ PropagatePatch
  \/ Extract

Spec == Init /\ [][Next]_vars

\* propagate_windings_and_flag runs in one sequential call: while its loop
\* has a step to take, it takes one.
SpecRun ==
  Init /\ [][Next]_vars /\ WF_vars(PropagateNextCell) /\ WF_vars(PropagatePatch)

(***************************************************************************)
(* apply_bool_op on its own: every operator code and every winding vector  *)
(* within the bounds.                                                      *)
(***************************************************************************)
WindingVectors ==
  UNION {[1..n -> (-MaxWinding)..MaxWinding] : n \in 1..MaxShapes}

InitOp ==
  /\ tm_in = <<>>
  /\ op = BOOLEAN_NONE
  /\ nshapes = 1
  /\ shape_fn = [o \in 0..MaxOrig |-> 0]
  /\ use_self = FALSE
  /\ with_assert = FALSE
  /\ pc = "idle"
  /\ stages = <<>>
  /\ tm_si = <<>>
  /\ topo = NoTopo
  /\ tt = 0
  /\ pinfo = NewPatchesInfo(0)
  /\ fp = NoFp
  /\ cinfo = <<>>
  /\ fc = NoFc
  /\ c_ambient = NO_INDEX
  /\ pw = NoPw
  /\ ex = NoEx
  /\ result = <<>>
  /\ so = NoSo
  /\ dt = NoDt
  /\ \E o \in 0..4, w \in WindingVectors :
       bo = [pc |-> "call", op |-> o, winding |-> w, res |-> FALSE]

\* The call of apply_bool_op.
ApplyBoolOpCall ==
  /\ bo.pc = "call"
  /\ bo' = [bo EXCEPT !.pc = "return", !.res = ApplyBoolOp(bo.op, bo.winding)]
  /\ UNCHANGED <<inputs, pc, stages, tm_si, topo, tt, pinfo, fp, cinfo, fc,
                 c_ambient, pw, ex, result, so, dt>>

NextOp == ApplyBoolOpCall

SpecOp == InitOp /\ [][NextOp]_vars

(***************************************************************************)
(* sort_tris_around_edge on its own: every mesh of the library after the   *)
(* intersection, every edge of it, the triangles of the edge in every      *)
(* order, every one of them as t0, without and with the extra triangle     *)
(* (listed last, as find_ambient_cell lists it).                           *)
(***************************************************************************)
\* The triangles of tm on the edge e.
TrisOnEdge(tm, e) ==
  {t \in 0..(FaceSize(tm) - 1) : FindFlapVert(Face(tm, t), e).flapv # NO_INDEX}

\* The edges of tm.
EdgesOf(tm) ==
  {Edge(Face(tm, t).vert[i], Face(tm, t).vert[(i % 3) + 1]) :
     t \in 0..(FaceSize(tm) - 1), i \in 1..3}

\* The coordinates offered for the vertex of the extra triangle.
ExtraCos == {<<3, 0, 0>>, <<1, 1, 5>>}

\* The calls of sort_tris_around_edge on the mesh tm.
SortCalls(tm) ==
  UNION {UNION {
    {[pc |-> "call", tm |-> tm, e |-> e, tris |-> tris, t0 |-> t0,
      extra_tri |-> <<>>, extra_co |-> <<>>, out |-> <<>>] :
       t0 \in Range(tris)}
    \cup
    {[pc |-> "call", tm |-> tm, e |-> e, tris |-> Append(tris, EXTRA_TRI_INDEX),
      t0 |-> t0,
      extra_tri |-> AddFace(<<e[1], e[2], NumVerts>>, NO_INDEX,
                            <<NO_INDEX, NO_INDEX, NO_INDEX>>),
      extra_co |-> co, out |-> <<>>] :
       t0 \in Range(tris), co \in ExtraCos}
    : tris \in Orderings(TrisOnEdge(tm, e))} : e \in EdgesOf(tm)}

InitSort ==
  /\ tm_in = <<>>
  /\ op = BOOLEAN_NONE
  /\ nshapes = 1
  /\ shape_fn = [o \in 0..MaxOrig |-> 0]
  /\ use_self = FALSE
  /\ with_assert = FALSE
  /\ pc = "idle"
  /\ stages = <<>>
  /\ tm_si = <<>>
  /\ topo = NoTopo
  /\ tt = 0
  /\ pinfo = NewPatchesInfo(0)
  /\ fp = NoFp
  /\ cinfo = <<>>
  /\ fc = NoFc
  /\ c_ambient = NO_INDEX
  /\ pw = NoPw
  /\ ex = NoEx
  /\ result = <<>>
  /\ bo = NoBo
  /\ \E m \in Range(MeshLibrary) : so \in SortCalls(TrimeshIntersect(m))
  /\ dt = NoDt

\* The call of sort_tris_around_edge.  A read of tm at EXTRA_TRI_INDEX ends
\* the program or yields either orientation bit.
SortCall ==
  /\ so.pc = "call"
  /\ \/ /\ SortReadsOutOfBounds(so.tm, so.e, so.tris, so.t0, so.extra_tri, so.extra_co)
        /\ so' = [so EXCEPT !.pc = "crash"]
     \/ \E oob_rev \in (IF SortReadsOutOfBounds(so.tm, so.e, so.tris, so.t0,
                                               so.extra_tri, so.extra_co)
                          THEN BOOLEAN ELSE {FALSE}) :
          so' = [so EXCEPT !.pc = "return",
                           !.out = SortTrisAroundEdge(so.tm, so.e, so.tris, so.t0,
                                                      so.extra_tri, so.extra_co,
                                                      oob_rev)]
  /\ UNCHANGED <<inputs, pc, stages, tm_si, topo, tt, pinfo, fp, cinfo, fc,
                 c_ambient, pw, ex, result, bo, dt>>

NextSort == SortCall

SpecSort == InitSort /\ [][NextSort]_vars

(***************************************************************************)
(* polymesh_from_trimesh_with_dissolve on its own, with pm_in = PolyIn.    *)
(* dt.pc tells where the call is: "gather" before the loop over the        *)
(* triangles, "merge" at the head of the loop over the input faces,        *)
(* "dissolve" in the loop of do_dissolve, "find" before                    *)
(* find_dissolve_verts, "verts" before dissolve_verts, "done" at the       *)
(* return, "aborted" after a false BLI_assert of a debug build.            *)
(***************************************************************************)
InitPoly ==
  /\ tm_in = <<>>
  /\ op = BOOLEAN_NONE
  /\ nshapes = 1
  /\ shape_fn = [o \in 0..MaxOrig |-> 0]
  /\ use_self = FALSE
  /\ with_assert \in BOOLEAN
  /\ pc = "idle"
  /\ stages = <<>>
  /\ tm_si = <<>>
  /\ topo = NoTopo
  /\ tt = 0
  /\ pinfo = NewPatchesInfo(0)
  /\ fp = NoFp
  /\ cinfo = <<>>
  /\ fc = NoFc
  /\ c_ambient = NO_INDEX
  /\ pw = NoPw
  /\ ex = NoEx
  /\ result = <<>>
  /\ bo = NoBo
  /\ so = NoSo
  /\ \E m \in PolyOut : dt = [NoDt EXCEPT !.pc = "gather", !.tm_out = m]

\* What a step of the detriangulator leaves alone.
polyframe == <<inputs, pc, stages, tm_si, topo, tt, pinfo, fp, cinfo, fc, c_ambient,
               pw, ex, result, bo, so>>

\* The loop that fills face_output_tris, and the construction of
\* face_output_face.
PolyGather ==
  /\ dt.pc = "gather"
  /\ dt' = [dt EXCEPT !.pc = "merge",
                      !.face_output_tris = GatherOutputTris(dt.tm_out, FaceSize(PolyIn)),
                      !.face_output_face = [f \in 1..FaceSize(PolyIn) |-> <<>>],
                      !.in_f = 0]
  /\ UNCHANGED polyframe

\* One turn of the loop over the input faces in which merge_tris_for_face
\* returns before it makes a FaceMergeState.  num_out_tris_for_face is the
\* size of face_output_tris, the number of input faces.
PolyMergeDone ==
  /\ dt.pc = "merge"
  /\ dt.in_f < FaceSize(PolyIn)
  /\ IF Len(dt.face_output_tris) = 0
       THEN dt' = [dt EXCEPT !.in_f = @ + 1]
       ELSE /\ IsFastPath(dt.face_output_tris[dt.in_f + 1], dt.tm_out, PolyIn)
            /\ dt' = [dt EXCEPT
                        !.face_output_face[dt.in_f + 1] =
                           FastPathFaces(dt.face_output_tris[dt.in_f + 1], dt.tm_out, PolyIn),
                        !.in_f = @ + 1]
  /\ UNCHANGED polyframe

\* merge_tris_for_face up to the loop of do_dissolve: init_face_merge_state,
\* whose BLI_asserts end a debug build, then the dissolvable edges sorted.
PolyMergeInit ==
  /\ dt.pc = "merge"
  /\ dt.in_f < FaceSize(PolyIn)
  /\ Len(dt.face_output_tris) # 0
  /\ ~IsFastPath(dt.face_output_tris[dt.in_f + 1], dt.tm_out, PolyIn)
  /\ \E fms \in {InitFaceMergeState(dt.face_output_tris[dt.in_f + 1], dt.tm_out)} :
       IF fms.asserted /\ with_assert
         THEN dt' = [dt EXCEPT !.pc = "aborted", !.fms = fms]
         ELSE \E s \in SortedDissolveEdges(fms) :
                dt' = [dt EXCEPT !.pc = "dissolve", !.fms = fms,
                                 !.dissolve_edges = s, !.k = 0]
  /\ UNCHANGED polyframe

\* One turn of the loop of do_dissolve.
PolyDissolveStep ==
  /\ dt.pc = "dissolve"
  /\ dt.k < Len(dt.dissolve_edges)
  /\ \E fms \in {DoDissolveBody(dt.fms, dt.dissolve_edges[dt.k + 1])} :
       IF fms.asserted /\ ~dt.fms.asserted /\ with_assert
         THEN dt' = [dt EXCEPT !.pc = "aborted", !.fms = fms]
         ELSE dt' = [dt EXCEPT !.fms = fms, !.k = @ + 1]
  /\ UNCHANGED polyframe

\* The end of merge_tris_for_face: the faces made of the MergeFaces left.
PolyMergeEmit ==
  /\ dt.pc = "dissolve"
  /\ dt.k >= Len(dt.dissolve_edges)
  /\ dt' = [dt EXCEPT !.pc = "merge",
                      !.face_output_face[dt.in_f + 1] = EmittedFaces(dt.fms),
                      !.in_f = @ + 1]
  /\ UNCHANGED polyframe

\* The loop that copies the faces and the construction of pm_out.
PolyBuild ==
  /\ dt.pc = "merge"
  /\ dt.in_f >= FaceSize(PolyIn)
  /\ dt' = [dt EXCEPT !.pc = "find", !.pm_out = CopyFaces(dt.face_output_face, 0)]
  /\ UNCHANGED polyframe

\* The call of find_dissolve_verts and the test of count_dissolve.
PolyFindDissolveVerts ==
  /\ dt.pc = "find"
  /\ \E dissolve \in {FindDissolveVerts(dt.pm_out)} :
       dt' = [dt EXCEPT !.v_dissolve = dissolve,
                        !.count_dissolve = CountDissolve(dissolve),
                        !.pc = IF CountDissolve(dissolve) > 0 THEN "verts" ELSE "done"]
  /\ UNCHANGED polyframe

\* The call of dissolve_verts.
PolyDissolveVerts ==
  /\ dt.pc = "verts"
  /\ dt' = [dt EXCEPT !.pc = "done", !.pm_out = DissolveVerts(dt.pm_out, dt.v_dissolve)]
  /\ UNCHANGED polyframe

NextPoly ==
  \/ PolyGather
  \/ PolyMergeDone
  \/ PolyMergeInit
  \/ PolyDissolveStep
  \/ PolyMergeEmit
  \/ PolyBuild
  \/ PolyFindDissolveVerts
  \/ PolyDissolveVerts

SpecPoly == InitPoly /\ [][NextPoly]_vars

(***************************************************************************)
(* Properties.                                                             *)
(***************************************************************************)
StageRan(name) == name \in Range(stages)

\* The keep rule of the operators, stated with quantifiers.
Keep(o, w) ==
  CASE o = BOOLEAN_ISECT -> \A i \in DOMAIN w : w[i] # 0
    [] o = BOOLEAN_UNION -> \E i \in DOMAIN w : w[i] # 0
    [] o = BOOLEAN_DIFFERENCE ->
         w[1] # 0 /\ (Len(w) = 1 \/ \E i \in 2..Len(w) : w[i] = 0)
    [] OTHER -> FALSE

\* The patch/cell graph as a graph: patch p and cell c are joined when c is
\* a side of p or p is in the list of c.
GraphNodes(ci, pi) ==
  {<<"patch", p>> : p \in 0..(Len(pi.patch) - 1)}
    \cup {<<"cell", c>> : c \in 0..(Len(ci) - 1)}

Joined(ci, pi, p, c) ==
  \/ pi.patch[p + 1].cell_above = c
  \/ pi.patch[p + 1].cell_below = c
  \/ Contains(ci[c + 1].patches, p)

GraphNeighbours(ci, pi, n) ==
  IF n[1] = "patch"
    THEN {<<"cell", c>> : c \in {c \in 0..(Len(ci) - 1) : Joined(ci, pi, n[2], c)}}
    ELSE {<<"patch", p>> : p \in {p \in 0..(Len(pi.patch) - 1) : Joined(ci, pi, p, n[2])}}

RECURSIVE GraphReach(_, _, _)
GraphReach(ci, pi, S) ==
  LET T == S \cup UNION {GraphNeighbours(ci, pi, n) : n \in S}
  IN IF T = S THEN S ELSE GraphReach(ci, pi, T)

GraphIsConnected(ci, pi) ==
  /\ Len(ci) > 0
  /\ Len(pi.patch) > 0
  /\ GraphReach(ci, pi, {<<"patch", 0>>}) = GraphNodes(ci, pi)

\* C1: boolean_trimesh on a mesh without faces returns that mesh, whatever
\* op and use_self are, and calls neither the intersection nor any stage.
C1_EmptyInputReturned ==
  (FaceSize(tm_in) = 0 /\ pc # "start")
    => (pc = "done" /\ result = tm_in /\ stages = <<>>)

C1_Witness == FaceSize(tm_in) = 0 /\ pc = "done" /\ op = BOOLEAN_UNION /\ use_self

\* C2: with op NONE and an input mesh that has faces, boolean_trimesh returns
\* the mesh the intersection produced, and the intersection is the only
\* stage that runs.
C2_NoneReturnsIntersected ==
  (op = BOOLEAN_NONE /\ FaceSize(tm_in) # 0 /\ pc \notin {"start", "intersect"})
    => /\ pc = "done"
       /\ result = tm_si
       /\ Len(stages) = 1
       /\ stages[1] = (IF use_self THEN "trimesh_self_intersect"
                                   ELSE "trimesh_nary_intersect")

C2_Witness ==
  op = BOOLEAN_NONE /\ pc = "done" /\ FaceSize(result) > 3 /\ result # tm_in

\* C3: once find_cells has built a patch/cell graph that is not connected,
\* boolean_trimesh returns tm_in and runs neither the winding propagation
\* nor the extraction.
C3_DisconnectedReturnsInput ==
  (StageRan("patch_cell_graph_connected") /\ ~GraphIsConnected(cinfo, pinfo))
    => /\ pc = "done"
       /\ result = tm_in
       /\ ~StageRan("propagate_windings_and_flag")
       /\ ~StageRan("extract_from_flag_diffs")

\* C4: when the two neighbours of the dummy triangle have patches with
\* different cell_above, find_ambient_cell returns NO_INDEX and
\* boolean_trimesh returns the intersected mesh without propagating windings.
C4_AmbientMismatchReturnsNoIndex ==
  (StageRan("find_ambient_cell") /\ ~AmbientSortOutOfBounds(tm_si, topo)
   /\ LET nb == AmbientNeighbours(tm_si, topo, pinfo, FALSE)
      IN nb.prev_above # nb.next_above)
    => /\ c_ambient = NO_INDEX
       /\ pc = "done"
       /\ result = tm_si
       /\ ~StageRan("propagate_windings_and_flag")

C6_DifferenceMinusUnionOfRest ==
  (bo.pc = "return" /\ bo.op = BOOLEAN_DIFFERENCE /\ Len(bo.winding) > 2)
    => (bo.res <=> (bo.winding[1] # 0 /\ \A i \in 2..Len(bo.winding) : bo.winding[i] = 0))

\* A step of the propagation loop in which cell cn gets its winding.
Crossed(cn) ==
  /\ pc = "propagate"
  /\ pw.c # NO_INDEX
  /\ ~cinfo[cn + 1].winding_assigned
  /\ cinfo'[cn + 1].winding_assigned

\* The winding of cn after the step is that of the cell pw.c before it with
\* d_below added to the component of the shape of the patch when the patch
\* has pw.c below it, and d_other added otherwise.
CrossedBy(cn, d_below, d_other) ==
  LET c == pw.c
      p == cinfo[c + 1].patches[pw.k + 1]
      patch == pinfo.patch[p + 1]
      s == shape_fn[Face(tm_si, patch.tri[1]).orig]
      d == IF patch.cell_below = c THEN d_below ELSE d_other
  IN /\ cn \in {patch.cell_above, patch.cell_below}
     /\ Len(cinfo'[cn + 1].winding) = nshapes
     /\ \A i \in 1..nshapes :
          cinfo'[cn + 1].winding[i] =
            cinfo[c + 1].winding[i] + (IF i = s + 1 THEN d ELSE 0)

\* C7 as stated: the cell reached through patch p from cell c gets the
\* winding of c with the component of the shape of p changed by +1 if
\* p.cell_below = c and by -1 otherwise.
C7_DeltaAsStated ==
  [][\A cn \in 0..(Len(cinfo) - 1) : Crossed(cn) => CrossedBy(cn, 1, -1)]_vars

\* C7 amended: the component of the shape of p is changed by -1 if
\* p.cell_below = c and by +1 otherwise; no other component changes.
C7_DeltaAmended ==
  [][\A cn \in 0..(Len(cinfo) - 1) : Crossed(cn) => CrossedBy(cn, -1, 1)]_vars

C7_Witness ==
  /\ pc = "propagate"
  /\ \E a \in 1..Len(cinfo), b \in 1..Len(cinfo) :
       /\ a - 1 # c_ambient /\ b - 1 # c_ambient
       /\ cinfo[a].winding_assigned /\ cinfo[b].winding_assigned
       /\ \E i \in 1..nshapes : cinfo[a].winding[i] = 1
       /\ \E i \in 1..nshapes : cinfo[b].winding[i] = -1

\* C8: when propagate_windings_and_flag has finished, every cell has its
\* winding assigned, a winding vector of nshapes entries, and a flag that is
\* the keep rule applied to its winding (the ambient cell too).
C8_AllCellsAssigned ==
  (StageRan("propagate_windings_and_flag") /\ pc \in {"extract", "done"})
    => \A c \in 1..Len(cinfo) :
         /\ cinfo[c].winding_assigned
         /\ Len(cinfo[c].winding) = nshapes
         /\ cinfo[c].flag = Keep(op, cinfo[c].winding)

C8_Witness ==
  /\ pc = "extract"
  /\ Len(cinfo) >= 4
  /\ nshapes = 3
  /\ \E c \in 1..Len(cinfo) : cinfo[c].flag
  /\ ~cinfo[c_ambient + 1].flag

\* Do the two cells of the patch of triangle t have different flags?
FlagsDiffer(t) ==
  LET patch == pinfo.patch[pinfo.tri_patch[t + 1] + 1]
  IN cinfo[patch.cell_above + 1].flag # cinfo[patch.cell_below + 1].flag

\* The triangles of tm_si whose flags differ, in ascending order.
KeptTris == SelectSeq([i \in 1..Len(tm_si) |-> i - 1], FlagsDiffer)

SameTriangle(f, g) == f.orig = g.orig /\ Range(f.vert) = Range(g.vert)

SideVerts(f, i) == {f.vert[i], f.vert[(i % 3) + 1]}

\* C10: an emitted triangle has its vertex order reversed iff the cell_above
\* of its patch is flagged, and is the input triangle otherwise; a reversed
\* triangle keeps the face orig, and each of its edge origs labels the same
\* pair of vertices as in the input triangle.
C10_FlipIffAboveFlagged ==
  (StageRan("extract_from_flag_diffs") /\ pc = "done"
   /\ Len(result) = Len(KeptTris))
    => \A k \in 1..Len(result) :
         LET src == Face(tm_si, KeptTris[k])
             out == result[k]
             patch == pinfo.patch[pinfo.tri_patch[KeptTris[k] + 1] + 1]
             above == cinfo[patch.cell_above + 1].flag
         IN /\ above <=> (out.vert = <<src.vert[1], src.vert[3], src.vert[2]>>)
            /\ ~above => out = src
            /\ out.orig = src.orig
            /\ \A i \in 1..3 : \E j \in 1..3 :
                 /\ SideVerts(out, i) = SideVerts(src, j)
                 /\ out.edge_orig[i] = src.edge_orig[j]

C10_Witness ==
  /\ StageRan("extract_from_flag_diffs") /\ pc = "done"
  /\ \E k \in 1..Len(result) :
       /\ Len(result) = Len(KeptTris)
       /\ result[k] # Face(tm_si, KeptTris[k])
  /\ \E k \in 1..Len(result) :
       /\ Len(result) = Len(KeptTris)
       /\ result[k] = Face(tm_si, KeptTris[k])

\* The topology of tm_si has been built: the constructor has returned.
TopoBuilt == StageRan("TriMeshTopology") /\ pc # "topology"

\* The canonical edge of side i (from 0) of triangle t.
SideEdge(tm, t, i) ==
  Edge(Face(tm, t).vert[i + 1], Face(tm, t).vert[((i + 1) % 3) + 1])

\* The triangles that have e as a side, in either orientation.
TrisWithSide(tm, e) ==
  {t \in 0..(FaceSize(tm) - 1) : \E i \in 0..2 : SideEdge(tm, t, i) = e}

\* The edges that are a side of some triangle.
MeshEdges(tm) ==
  {SideEdge(tm, t, i) : t \in 0..(FaceSize(tm) - 1), i \in 0..2}

\* A list without repeated elements.
NoDuplicates(s) == \A i, j \in DOMAIN s : s[i] = s[j] => i = j

\* The entries of all the lists of a map, as (key, position) pairs.
MapEntries(m) == UNION {{<<k, n>> : n \in DOMAIN m[k]} : k \in DOMAIN m}

\* C11: after the construction of the topology the keys of edge_tri are the
\* edges of the mesh, edge_tri[e] lists exactly the triangles with side e,
\* each once, and the lengths of all the lists add up to three times the
\* number of triangles.
C11_EdgeTriComplete ==
  TopoBuilt
    => /\ DOMAIN topo.edge_tri = MeshEdges(tm_si)
       /\ \A e \in DOMAIN topo.edge_tri :
            /\ Range(topo.edge_tri[e]) = TrisWithSide(tm_si, e)
            /\ NoDuplicates(topo.edge_tri[e])
       /\ Cardinality(MapEntries(topo.edge_tri)) = 3 * FaceSize(tm_si)

\* The topology is built for a mesh with a boundary edge and an edge of
\* three triangles, one of them in the other orientation.
C11_Witness ==
  /\ TopoBuilt
  /\ \E e \in DOMAIN topo.edge_tri : Len(topo.edge_tri[e]) = 1
  /\ \E e \in DOMAIN topo.edge_tri :
       /\ Len(topo.edge_tri[e]) >= 3
       /\ \E k \in DOMAIN topo.edge_tri[e] :
            FindFlapVert(Face(tm_si, topo.edge_tri[e][k]), e).rev

\* The vertices the mesh uses.
MeshVerts(tm) == {Face(tm, t).vert[i] : t \in 0..(FaceSize(tm) - 1), i \in 1..3}

\* C12: after the construction of the topology, vert_edges[v] lists, each
\* once, exactly the edges of the mesh that have v as an end, for every
\* vertex v of the mesh.
C12_VertEdgesComplete ==
  TopoBuilt
    => /\ DOMAIN topo.vert_edges = MeshVerts(tm_si)
       /\ \A v \in DOMAIN topo.vert_edges :
            /\ Range(topo.vert_edges[v])
                 = {e \in MeshEdges(tm_si) : e[1] = v \/ e[2] = v}
            /\ NoDuplicates(topo.vert_edges[v])

\* find_patches has returned.
PatchesFound == StageRan("find_cells")

\* The patch indices and the triangle indices.
PatchIndices == 0..(Len(pinfo.patch) - 1)

TriIndices == 0..(FaceSize(tm_si) - 1)

\* The positions of triangle t in the triangle list of patch p.
PositionsIn(p, t) ==
  {k \in DOMAIN pinfo.patch[p + 1].tri : pinfo.patch[p + 1].tri[k] = t}

\* C13: after find_patches every triangle has a valid patch index in
\* tri_patch, is listed exactly once by that patch and by no other patch,
\* and no patch is empty.
C13_PatchesPartition ==
  PatchesFound
    => /\ DOMAIN pinfo.tri_patch = 1..FaceSize(tm_si)
       /\ \A t \in TriIndices :
            /\ TriPatch(pinfo, t) \in PatchIndices
            /\ \A p \in PatchIndices :
                 Cardinality(PositionsIn(p, t)) = IF p = TriPatch(pinfo, t) THEN 1 ELSE 0
       /\ \A p \in PatchIndices : Len(pinfo.patch[p + 1].tri) > 0

\* Patches were found for a mesh with three patches or more, one of them
\* of three triangles or more and one of a single triangle.
C13_Witness ==
  /\ PatchesFound
  /\ Len(pinfo.patch) >= 3
  /\ \E p \in PatchIndices : Len(pinfo.patch[p + 1].tri) >= 3
  /\ \E p \in PatchIndices : Len(pinfo.patch[p + 1].tri) = 1

\* The edges with other than two triangles that carry a triangle of patch
\* p and a triangle of patch q.
SharedNonManifoldEdges(p, q) ==
  {e \in DOMAIN topo.edge_tri :
     /\ Len(topo.edge_tri[e]) # 2
     /\ \E j, k \in DOMAIN topo.edge_tri[e] :
          /\ TriPatch(pinfo, topo.edge_tri[e][j]) = p
          /\ TriPatch(pinfo, topo.edge_tri[e][k]) = q}

\* C14: after find_patches, patch_patch_edge(p, q) is an edge iff p and q
\* differ and share an edge that does not have exactly two triangles; the
\* edge recorded is such a shared edge, and the same for (q, p).
C14_PatchPatchEdgeIffShared ==
  PatchesFound
    => \A p, q \in PatchIndices :
         /\ (PatchPatchEdge(pinfo, p, q) # NullEdge)
              <=> (p # q /\ SharedNonManifoldEdges(p, q) # {})
         /\ PatchPatchEdge(pinfo, p, q) # NullEdge
              => /\ PatchPatchEdge(pinfo, p, q) \in SharedNonManifoldEdges(p, q)
                 /\ PatchPatchEdge(pinfo, q, p) = PatchPatchEdge(pinfo, p, q)

\* Patches were found where one patch shares edges with two others and the
\* two edges recorded differ.
C14_Witness ==
  /\ PatchesFound
  /\ \E p, q, r \in PatchIndices :
       /\ PatchPatchEdge(pinfo, p, q) # NullEdge
       /\ PatchPatchEdge(pinfo, p, r) # NullEdge
       /\ PatchPatchEdge(pinfo, p, q) # PatchPatchEdge(pinfo, p, r)

\* Triangles t1 and t2 are the two triangles of an edge with exactly two.
ManifoldAdjacent(t1, t2) ==
  /\ t1 # t2
  /\ \E i \in 0..2 :
       /\ Len(topo.edge_tri[SideEdge(tm_si, t1, i)]) = 2
       /\ Range(topo.edge_tri[SideEdge(tm_si, t1, i)]) = {t1, t2}

RECURSIVE ManifoldReach(_)
\* The triangles joined to a triangle of S by a chain of such edges.
ManifoldReach(S) ==
  LET T == S \cup {t \in TriIndices : \E s \in S : ManifoldAdjacent(s, t)}
  IN IF T = S THEN S ELSE ManifoldReach(T)

\* C17: after find_patches two triangles are in the same patch iff a chain
\* of triangles joins them in which consecutive triangles share an edge
\* with exactly two triangles.
C17_PatchesAreManifoldComponents ==
  PatchesFound
    => \A t1 \in TriIndices :
         {t2 \in TriIndices : TriPatch(pinfo, t1) = TriPatch(pinfo, t2)}
           = ManifoldReach({t1})

\* Patches were found where two triangles that share an edge of three
\* triangles are in different patches, and two triangles of one patch are
\* joined only through a third.
C17_Witness ==
  /\ PatchesFound
  /\ \E e \in DOMAIN topo.edge_tri :
       /\ Len(topo.edge_tri[e]) >= 3
       /\ \E j, k \in DOMAIN topo.edge_tri[e] :
            TriPatch(pinfo, topo.edge_tri[e][j]) # TriPatch(pinfo, topo.edge_tri[e][k])
  /\ \E t1, t2 \in TriIndices :
       /\ t1 # t2
       /\ TriPatch(pinfo, t1) = TriPatch(pinfo, t2)
       /\ ~ManifoldAdjacent(t1, t2)

\* find_cells has returned.
CellsFound ==
  StageRan("find_cells") /\ pc \notin {"patches", "cells", "abort"}

\* C15: after find_cells has returned, every patch has cell_above and
\* cell_below set to a cell index.
C15_AllPatchSidesSet ==
  CellsFound
    => \A p \in PatchIndices :
         /\ pinfo.patch[p + 1].cell_above # NO_INDEX
         /\ pinfo.patch[p + 1].cell_below # NO_INDEX

\* C16: when patch_cell_graph_ok has returned true, the two sides of every
\* patch are different cells and there are two cells or more.
C16_PassedGraphHasDistinctSides ==
  (StageRan("patch_cell_graph_ok") /\ PatchCellGraphOk(cinfo, pinfo))
    => /\ \A p \in PatchIndices :
            pinfo.patch[p + 1].cell_above # pinfo.patch[p + 1].cell_below
       /\ Len(cinfo) >= 2

\* The class of triangle t relative to the pivot of the sort call s: 1 for
\* coplanar with the pivot with the same flap vertex, 2 for coplanar
\* otherwise, 3 for a flap vertex below the plane of the pivot taken in the
\* orientation that runs along e, 4 for above.
ClassRelativeToPivot(s, t) ==
  LET tri0 == Face(s.tm, s.t0)
      flap0 == FindFlapVert(tri0, s.e)
      flap == FindFlapVert(TriOrExtra(s.tm, t, s.extra_tri), s.e)
      below == Orient3d(CoExact(tri0.vert[1], s.extra_co),
                        CoExact(tri0.vert[2], s.extra_co),
                        CoExact(tri0.vert[3], s.extra_co),
                        CoExact(flap.flapv, s.extra_co))
      along == IF flap0.rev THEN -below ELSE below
  IN IF along > 0 THEN 3
     ELSE IF along < 0 THEN 4
     ELSE IF flap.flapv = flap0.flapv THEN 1 ELSE 2

\* Group n of the sort call s, in the order of the input: the triangles
\* after the first of class n, and the first triangle in group 1.
GroupOf(s, n) ==
  LET rest == SelectSeq(Tail(s.tris), LAMBDA t : ClassRelativeToPivot(s, t) = n)
  IN IF n = 1 THEN <<Head(s.tris)>> \o rest ELSE rest

\* b holds every element of a as often as a does, and nothing else.
IsPermutation(a, b) ==
  /\ Len(a) = Len(b)
  /\ \A x \in Range(a) \cup Range(b) :
       Cardinality({i \in DOMAIN a : a[i] = x}) = Cardinality({i \in DOMAIN b : b[i] = x})

\* g sorted as the sort of s sorts a group of classes 3 or 4: by a call of
\* the sort with the first element as the pivot.
RecursivelySorted(s, g) ==
  IF Len(g) <= 1 THEN {g}
  ELSE {SortTrisAroundEdge(s.tm, s.e, g, g[1], s.extra_tri, s.extra_co, oob_rev) :
          oob_rev \in BOOLEAN}

\* out is four parts one after the other, made of the groups ga, gb, gc, gd.
\* The parts of groups 3 and 4 are sorted by the sort itself: the second and
\* fourth part, or the first and third when first_sorted; the other parts
\* hold the elements of their groups.
MergedAs(s, out, ga, gb, gc, gd, first_sorted) ==
  LET la == Len(ga)
      lb == Len(gb)
      lc == Len(gc)
  IN /\ Len(out) = la + lb + lc + Len(gd)
     /\ IF first_sorted
          THEN /\ SubSeq(out, 1, la) \in RecursivelySorted(s, ga)
               /\ IsPermutation(SubSeq(out, la + 1, la + lb), gb)
               /\ SubSeq(out, la + lb + 1, la + lb + lc) \in RecursivelySorted(s, gc)
               /\ IsPermutation(SubSeq(out, la + lb + lc + 1, Len(out)), gd)
          ELSE /\ IsPermutation(SubSeq(out, 1, la), ga)
               /\ SubSeq(out, la + 1, la + lb) \in RecursivelySorted(s, gb)
               /\ IsPermutation(SubSeq(out, la + lb + 1, la + lb + lc), gc)
               /\ SubSeq(out, la + lb + lc + 1, Len(out)) \in RecursivelySorted(s, gd)

\* C18: what sort_tris_around_edge returns is a permutation of tris, the
\* extra index included, made of G1, G4, G2, G3 in this order when t0 is
\* tris[0] and of G3, G1, G4, G2 otherwise, where G3 and G4 are sorted by
\* the sort itself.
C18_SortIsMergedPermutation ==
  so.pc = "return"
    => /\ IsPermutation(so.tris, so.out)
       /\ IF so.tris[1] = so.t0
            THEN MergedAs(so, so.out, GroupOf(so, 1), GroupOf(so, 4), GroupOf(so, 2),
                          GroupOf(so, 3), FALSE)
            ELSE MergedAs(so, so.out, GroupOf(so, 3), GroupOf(so, 1), GroupOf(so, 4),
                          GroupOf(so, 2), TRUE)

\* A sort has returned for a pivot that is not the first triangle, with
\* the extra triangle among four or more, a group 3 or 4 of two or more
\* and both of these groups in use.
C18_Witness ==
  /\ so.pc = "return"
  /\ so.tris[1] # so.t0
  /\ Len(so.tris) >= 4
  /\ Contains(so.tris, EXTRA_TRI_INDEX)
  /\ Len(GroupOf(so, 3)) >= 1
  /\ Len(GroupOf(so, 4)) >= 2
  /\ so.out # so.tris

\* Does the triangle at position i (from 0) of the sorted list use e
\* reversed?
UsesReversed(e, sorted_tris, i) ==
  FindFlapVert(Face(tm_si, sorted_tris[i + 1]), e).rev

\* The follow side of the patch of the triangle at position i: cell_below
\* if the triangle uses e reversed, else cell_above.
FollowSide(pi, e, sorted_tris, i) ==
  LET patch == pi.patch[TriPatch(pi, sorted_tris[i + 1]) + 1]
  IN IF UsesReversed(e, sorted_tris, i) THEN patch.cell_below ELSE patch.cell_above

\* The previous side of the patch of the triangle at position i:
\* cell_above if the triangle uses e reversed, else cell_below.
PreviousSide(pi, e, sorted_tris, i) ==
  LET patch == pi.patch[TriPatch(pi, sorted_tris[i + 1]) + 1]
  IN IF UsesReversed(e, sorted_tris, i) THEN patch.cell_above ELSE patch.cell_below

\* A step of find_cells_from_edge, and the step that ends an edge.
PairStep == pc = "cells" /\ fc.e # NullEdge /\ pc' = "cells"

EdgeDone == PairStep /\ fc'.e = NullEdge

\* C19: when find_cells_from_edge has processed an edge without a merge
\* conflict, the follow side of every triangle of the sorted list and the
\* previous side of the next one (cyclically) are set and are the same
\* cell; and a cell is added only for a pair whose two sides were unset.
C19_ConsecutivePairsShareCell ==
  [][/\ (EdgeDone /\ ~fc'.conflict)
          => \A i \in 0..(Len(fc.sorted_tris) - 1) :
               /\ FollowSide(pinfo', fc.e, fc.sorted_tris, i) # NO_INDEX
               /\ FollowSide(pinfo', fc.e, fc.sorted_tris, i)
                    = PreviousSide(pinfo', fc.e, fc.sorted_tris,
                                   (i + 1) % Len(fc.sorted_tris))
     /\ (PairStep /\ Len(cinfo') # Len(cinfo))
          => /\ Len(cinfo') = Len(cinfo) + 1
             /\ FollowSide(pinfo, fc.e, fc.sorted_tris, fc.i) = NO_INDEX
             /\ PreviousSide(pinfo, fc.e, fc.sorted_tris,
                             (fc.i + 1) % Len(fc.sorted_tris)) = NO_INDEX
    ]_vars

\* Two edges have been processed without a conflict, the second one with
\* sides that the first had set.
C19_Witness ==
  /\ pc = "cells"
  /\ fc.e = NullEdge
  /\ ~fc.conflict
  /\ Cardinality(fc.processed_edges) >= 2
  /\ Len(cinfo) >= 3

\* The pair at position fc.i has both sides set, to different cells.
MergeConflict ==
  /\ pc = "cells"
  /\ fc.e # NullEdge
  /\ FollowSide(pinfo, fc.e, fc.sorted_tris, fc.i) # NO_INDEX
  /\ PreviousSide(pinfo, fc.e, fc.sorted_tris, (fc.i + 1) % Len(fc.sorted_tris))
       # NO_INDEX
  /\ FollowSide(pinfo, fc.e, fc.sorted_tris, fc.i)
       # PreviousSide(pinfo, fc.e, fc.sorted_tris, (fc.i + 1) % Len(fc.sorted_tris))

\* C20: at a pair whose follow and previous sides are set to different
\* cells the cell builder changes no patch and no cell, and find_cells
\* processes no further pair or edge.
C20_ConflictStopsCellBuilder ==
  [][MergeConflict => (pinfo' = pinfo /\ cinfo' = cinfo /\ pc' # "cells")]_vars

\* The propagation loop is running.
Propagating == pc = "propagate"

\* C21: during winding propagation no cell is in the queue twice, the queue
\* is never longer than the number of cells, the winding vector of a cell
\* whose winding_assigned is true is not changed, and the loop ends.
C21_PropagationQueueBounded ==
  /\ [](Propagating => (NoDuplicates(pw.queue) /\ Len(pw.queue) <= Len(cinfo)))
  /\ [][Propagating =>
          \A c \in DOMAIN cinfo :
            cinfo[c].winding_assigned =>
              (cinfo'[c].winding = cinfo[c].winding /\ cinfo'[c].winding_assigned)]_vars
  /\ (Propagating ~> ~Propagating)

\* The loop has ended with three or more cells queued, one of them through
\* a patch whose other cell had its winding already.
C21_Witness ==
  /\ pc = "extract"
  /\ Len(pw.queue) >= 3
  /\ Len(pw.queue) = Len(cinfo)
  /\ \E c \in DOMAIN cinfo : Len(cinfo[c].patches) >= 2

\* C28: the flood fill of patch_cell_graph_connected, run on what find_cells
\* returns, reads no cell_above or cell_below that is still NO_INDEX: it
\* uses only valid cell indices.
C28_FloodFillUsesValidCells ==
  pc = "connected" => ~PatchCellGraphConnected(cinfo, pinfo).oob

\* The patch sides and the cells' patch lists name each other.
PatchCellRefsConsistent(ci, pi) ==
  /\ \A c \in 1..Len(ci) :
       /\ Len(ci[c].patches) > 0
       /\ \A k \in 1..Len(ci[c].patches) :
            ci[c].patches[k] \in 0..(Len(pi.patch) - 1)
  /\ \A p \in 1..Len(pi.patch) :
       /\ pi.patch[p].cell_above \in {NO_INDEX} \cup 0..(Len(ci) - 1)
       /\ pi.patch[p].cell_below \in {NO_INDEX} \cup 0..(Len(ci) - 1)
       /\ \A c \in 1..Len(ci) :
            Contains(ci[c].patches, p - 1)
              <=> (pi.patch[p].cell_above = c - 1 \/ pi.patch[p].cell_below = c - 1)

C29_SentinelNeverIndexesMesh ==
  pc = "ambient" => ~AmbientSortOutOfBounds(tm_si, topo)

\* The calls of sort_tris_around_edge of the step at hand: those of
\* find_cells_from_edge for the edge it is working on, and those of
\* find_ambient_cell.
SortCallsAtHand ==
  IF pc = "cells" /\ fc.e # NullEdge
    THEN SortTrisAroundEdgeCalls(tm_si, fc.e, EdgeTris(topo, fc.e),
                                 EdgeTris(topo, fc.e)[1], <<>>, <<>>)
  ELSE IF pc = "ambient"
    THEN LET a == AmbientSortInput(tm_si, topo)
         IN SortTrisAroundEdgeCalls(tm_si, a.ehull, a.edge_tris, a.edge_tris[1],
                                    a.dummy_tri, a.extra_co)
  ELSE {}

NoRepeat(s) == \A i, j \in DOMAIN s : s[i] = s[j] => i = j

\* The MergeFaces of fms with merge_to == -1, by index.
LiveFaces(fms) == {f \in 0..(Len(fms.face) - 1) : fms.face[f + 1].merge_to = -1}

\* The edge the loop of do_dissolve is at.
EdgeAtHand == dt.dissolve_edges[dt.k + 1]

\* The step is a turn of the loop of do_dissolve that dissolves its edge.
Dissolves ==
  /\ dt.pc = "dissolve"
  /\ dt.k < Len(dt.dissolve_edges)
  /\ dt'.fms.face # dt.fms.face

\* C22: in do_dissolve an edge is dissolved only when its left and right
\* faces are both set and have no vertex in common but the two ends of the
\* edge, so no other edge in common either; and at every point of the loop
\* no MergeFace with merge_to == -1 has a vertex twice.
C22_DissolveKeepsFacesSimple ==
  /\ [](dt.pc = "dissolve"
          => \A f \in LiveFaces(dt.fms) : NoRepeat(dt.fms.face[f + 1].vert))
  /\ [][Dissolves =>
          LET me == dt.fms.edge[EdgeAtHand + 1]
          IN /\ me.left_face # -1
             /\ me.right_face # -1
             /\ Range(dt.fms.face[me.left_face + 1].vert)
                  \cap Range(dt.fms.face[me.right_face + 1].vert) = {me.v1, me.v2}
             /\ Range(dt.fms.face[me.left_face + 1].edge)
                  \cap Range(dt.fms.face[me.right_face + 1].edge) = {EdgeAtHand}]_vars

\* The loop of do_dissolve has ended with an edge dissolved and another one,
\* with both faces set, kept because the faces have a third vertex in common.
C22_Witness ==
  /\ dt.pc = "dissolve"
  /\ dt.k = Len(dt.dissolve_edges)
  /\ \E f \in 0..(Len(dt.fms.face) - 1) : dt.fms.face[f + 1].merge_to # -1
  /\ \E e \in Range(dt.dissolve_edges) :
       LET me == dt.fms.edge[e + 1]
       IN /\ me.left_face # -1
          /\ me.right_face # -1
          /\ me.left_face # me.right_face
          /\ Range(dt.fms.face[me.left_face + 1].vert)
               \cap Range(dt.fms.face[me.right_face + 1].vert) # {me.v1, me.v2}

\* The input faces whose group of triangles merge_tris_for_face has answered
\* with a FaceMergeState, from 0.
GeneralPathFaces ==
  {in_f \in 0..(Len(dt.face_output_face) - 1) :
     /\ in_f < dt.in_f
     /\ ~IsFastPath(dt.face_output_tris[in_f + 1], dt.tm_out, PolyIn)}

\* C26: every face that merge_tris_for_face makes of a FaceMergeState has as
\* its orig the index of the input face the triangles of the group came from.
C26_GeneralPathKeepsOrig ==
  \A in_f \in GeneralPathFaces :
    \A i \in DOMAIN dt.face_output_face[in_f + 1] :
      dt.face_output_face[in_f + 1][i].orig = in_f

RECURSIVE FacesOfNonEmptyGroups(_)
\* The faces merge_tris_for_face has returned for the input faces from in_f
\* (from 0) on that have a triangle in tm_out, in ascending order.
FacesOfNonEmptyGroups(in_f) ==
  IF in_f >= Len(dt.face_output_face) THEN <<>>
  ELSE (IF dt.face_output_tris[in_f + 1] # <<>> THEN dt.face_output_face[in_f + 1]
                                                  ELSE <<>>)
         \o FacesOfNonEmptyGroups(in_f + 1)

\* C25: when pm_out is made, an input face with no triangle in tm_out has
\* given no face, though the test that skips a face looks at the number of
\* input faces, which is not 0; and the faces of pm_out are those
\* merge_tris_for_face returned for the groups with a triangle, in ascending
\* order of the input face.
C25_EmptyGroupsGiveNoFace ==
  dt.pc = "find"
    => /\ Len(dt.face_output_tris) # 0
       /\ \A in_f \in 0..(Len(dt.face_output_tris) - 1) :
            dt.face_output_tris[in_f + 1] = <<>> => dt.face_output_face[in_f + 1] = <<>>
       /\ dt.pm_out = FacesOfNonEmptyGroups(0)

\* pm_out is made of the faces of two input faces, with a third input face
\* that has no triangle.
C25_Witness ==
  /\ dt.pc = "find"
  /\ dt.face_output_tris[3] = <<>>
  /\ dt.face_output_tris[1] # <<>>
  /\ dt.face_output_tris[2] # <<>>
  /\ dt.face_output_face[1] # dt.face_output_face[2]
  /\ Len(dt.pm_out) >= 2

\* The triangles of the group merge_tris_for_face is at.
GroupAtHand == dt.face_output_tris[dt.in_f + 1]

\* Is every edge of the group used at most once in each direction?
OncePerDirection(tris, tm) ==
  \A t1, t2 \in DOMAIN tris : \A i1, i2 \in 0..2 :
    (/\ Face(tm, tris[t1]).vert[i1 + 1] = Face(tm, tris[t2]).vert[i2 + 1]
     /\ Face(tm, tris[t1]).vert[((i1 + 1) % 3) + 1]
          = Face(tm, tris[t2]).vert[((i2 + 1) % 3) + 1])
      => (t1 = t2 /\ i1 = i2)

\* Position i (from 0) of the live face f of fms has an edge with the ends
\* of the side, which records f on the side the direction tells.
SideBound(fms, f, i) ==
  LET mf == fms.face[f + 1]
      me == fms.edge[mf.edge[i + 1] + 1]
      va == mf.vert[i + 1]
      vb == mf.vert[((i + 1) % Len(mf.vert)) + 1]
  IN /\ Len(mf.edge) = Len(mf.vert)
     /\ {me.v1, me.v2} = {va, vb}
     /\ IF va = me.v1 THEN me.left_face = f ELSE me.right_face = f

\* The faces and edges of fms name each other as they should.
FmsConsistent(fms) ==
  /\ \A f \in LiveFaces(fms) :
       \A i \in 0..(Len(fms.face[f + 1].vert) - 1) : SideBound(fms, f, i)
  /\ \A e \in 0..(Len(fms.edge) - 1) :
       LET me == fms.edge[e + 1]
       IN /\ me.left_face # -1 => me.left_face \in LiveFaces(fms)
          /\ me.right_face # -1 => me.right_face \in LiveFaces(fms)
          /\ (me.left_face = -1 /\ me.right_face = -1)
               => \A f \in LiveFaces(fms) : e \notin Range(fms.face[f + 1].edge)

\* C23: for a group with every edge used at most once in each direction,
\* after init_face_merge_state and after every splice, each position of each
\* live MergeFace has the edge of its two vertices, which records the face
\* as left_face when the first vertex is v1 and as right_face otherwise; no
\* side of an edge names a merged face; a dissolved edge has both sides -1
\* and is in no live face; and a splice leaves a face of alen + blen - 2
\* vertices.
C23_MergeStateConsistent ==
  /\ []((dt.pc = "dissolve" /\ OncePerDirection(GroupAtHand, dt.tm_out))
          => FmsConsistent(dt.fms))
  /\ [][(Dissolves /\ OncePerDirection(GroupAtHand, dt.tm_out)) =>
          LET me == dt.fms.edge[EdgeAtHand + 1]
          IN /\ dt'.fms.edge[EdgeAtHand + 1].left_face = -1
             /\ dt'.fms.edge[EdgeAtHand + 1].right_face = -1
             /\ Len(dt'.fms.face[me.left_face + 1].vert)
                  = Len(dt.fms.face[me.left_face + 1].vert)
                      + Len(dt.fms.face[me.right_face + 1].vert) - 2
             /\ dt'.fms.face[me.right_face + 1].merge_to = me.left_face]_vars

\* The loop of do_dissolve has ended after two splices or more, for a group
\* with every edge used at most once in each direction.
C23_Witness ==
  /\ dt.pc = "dissolve"
  /\ dt.k = Len(dt.dissolve_edges)
  /\ OncePerDirection(GroupAtHand, dt.tm_out)
  /\ Cardinality(LiveFaces(dt.fms)) + 2 <= Len(dt.fms.face)
  /\ \E f \in LiveFaces(dt.fms) : Len(dt.fms.face[f + 1].vert) >= 5

\* The two neighbours of position i (from 1) of the face, as a set.
NeighbourPair(face, i) ==
  {face.vert[(i % Len(face.vert)) + 1],
   face.vert[((i + Len(face.vert) - 2) % Len(face.vert)) + 1]}

\* v is no input vertex, has the same two neighbours u and w in every face
\* of pm that has it, and the cross product of v - u and w - v is zero.
ShouldDissolve(pm, v) ==
  /\ PolyVertOrig[v + 1] = NO_INDEX
  /\ \E u, w \in PopulateVert(pm) :
       /\ \A f \in DOMAIN pm : \A i \in DOMAIN pm[f].vert :
            pm[f].vert[i] = v => NeighbourPair(pm[f], i) = {u, w}
       /\ Cross3(Sub3(PolyVertCo[v + 1], PolyVertCo[u + 1]),
                 Sub3(PolyVertCo[w + 1], PolyVertCo[v + 1])) = <<0, 0, 0>>

\* find_dissolve_verts has returned and pm_out is as it was given to it.
VertsMarked ==
  \/ dt.pc = "verts"
  \/ dt.pc = "done" /\ dt.count_dissolve = 0

\* C24: find_dissolve_verts marks a vertex of pm_out exactly when its orig
\* is NO_INDEX, it has the same two neighbours in every face that has it and
\* it lies in line with them by the exact cross product; dissolve_verts then
\* takes the marked vertices, and no other, out of every face and keeps the
\* order of the rest.
C24_DissolvedVertsAreInLine ==
  /\ [](VertsMarked
          => /\ DOMAIN dt.v_dissolve = PopulateVert(dt.pm_out)
             /\ \A v \in PopulateVert(dt.pm_out) :
                  dt.v_dissolve[v] <=> ShouldDissolve(dt.pm_out, v)
             /\ dt.count_dissolve = Cardinality({v \in PopulateVert(dt.pm_out) :
                                                   ShouldDissolve(dt.pm_out, v)}))
  /\ [][dt.pc = "verts" =>
          /\ Len(dt'.pm_out) = Len(dt.pm_out)
          /\ \A f \in DOMAIN dt.pm_out :
               dt'.pm_out[f].vert
                 = SelectSeq(dt.pm_out[f].vert, LAMBDA v : ~ShouldDissolve(dt.pm_out, v))]_vars

\* dissolve_verts has taken a vertex out, and pm_out still has a vertex with
\* orig NO_INDEX, one that was not in line or had other neighbours.
C24_Witness ==
  /\ dt.pc = "done"
  /\ dt.count_dissolve > 0
  /\ \E v \in DOMAIN dt.v_dissolve : dt.v_dissolve[v] /\ v \notin PopulateVert(dt.pm_out)
  /\ \E v \in PopulateVert(dt.pm_out) : PolyVertOrig[v + 1] = NO_INDEX

====
